---------------------------- MODULE Spec2Model ----------------------------
(***************************************************************************)
(* Schema-comparison and data-quality validation engine                    *)
(* (src/tools.py) and its multi-sheet orchestrator (src/main.py).          *)
(*                                                                         *)
(* The pure functions of tools.py are operators; a "call" of one of them   *)
(* is a pair of variables (call, ret): Init draws the arguments, the       *)
(* action applies the operator.  The orchestrator is a state machine with  *)
(* one action per pipeline step of run_validation_for_sheet.               *)
(***************************************************************************)
EXTENDS Integers, Sequences, FiniteSets, TLC

VARIABLES
    call,   \* arguments of the tools.py function being called
    ret,    \* its return value (NotCalled before the call)
    \* run_multi_sheet_validation (src/main.py):
    pc,                        \* the step the run is at
    file,                      \* the input file: [is_excel, readable, sheet_names]
    user_provided_table_name,  \* the caller's table name, or NoName
    database,                  \* the names of the tables in the database
    sheet_index,               \* position of the current sheet in sheet_names
    sheet,                     \* run_validation_for_sheet's locals for that sheet
    ran,                       \* the sheets the loop has taken up, in order
    all_sheet_reports,         \* report key -> sheet report
    inferred_target_table,     \* first table inferred for a sheet, or NoName
    final_output,              \* the aggregate report (None until assembled)
    schema_history,            \* the snapshot files: file name -> content
    now                        \* the wall clock, in seconds

toolVars == <<call, ret>>

runVars == <<pc, file, user_provided_table_name, database, sheet_index, sheet, ran,
             all_sheet_reports, inferred_target_table, final_output,
             schema_history, now>>

vars == <<call, ret, pc, file, user_provided_table_name, database, sheet_index, sheet,
          ran, all_sheet_reports, inferred_target_table, final_output,
          schema_history, now>>

----------------------------------------------------------------------------
(* Bounds of the model *)

\* most rows of a data frame handed to run_data_quality_checks
MaxRows == 4

\* most sheets of a workbook
MaxSheets == 2

\* the clock stops advancing here
MaxTime == 2

\* most calls of save_schema_to_history before a load
MaxSaves == 3

\* rows of the longest frame handed to validate_data_types
MaxValues == 6

\* rows of the largest frame handed to extract_schema_from_df
MaxProfiled == 3

----------------------------------------------------------------------------
(* Generic helpers *)

Range(s) == {s[i] : i \in 1..Len(s)}

Min(a, b) == IF a <= b THEN a ELSE b

\* s[:n]
Take(s, n) == SubSeq(s, 1, Min(n, Len(s)))

\* the positions i of s, ascending, for which keep[i] holds
RECURSIVE PositionsFrom(_, _)
PositionsFrom(keep, i) ==
    IF i > Len(keep) THEN <<>>
    ELSE (IF keep[i] THEN <<i>> ELSE <<>>) \o PositionsFrom(keep, i + 1)

Positions(keep) == PositionsFrom(keep, 1)

\* [s[p[1]], s[p[2]], ...]
Pick(s, p) == [k \in 1..Len(p) |-> s[p[k]]]

\* number of TRUE entries of a boolean mask
CountTrue(mask) == Len(Positions(mask))

\* all sequences over S of length at most n
SeqsUpTo(S, n) == UNION {[1..k -> S] : k \in 0..n}

NotCalled == [called |-> FALSE]

\* Python's None, where a dict or a list is expected
None == [none |-> TRUE]

IsNone(x) == DOMAIN x = {"none"}

\* Python's None, where a table name is expected (names are character
\* sequences; this one is no sequence of characters)
NoName == <<"None:NoneType">>

\* Python's None, where a list of columns is expected (a list of columns
\* holds columns)
NoSchema == <<None>>

\* Python's None as a sheet name (the single table of a CSV file)
NoSheetName == "None:NoneType"

\* no run of the orchestrator is in progress
NoRun ==
    /\ pc = "idle"
    /\ file = None
    /\ user_provided_table_name = NoName
    /\ database = {}
    /\ sheet_index = 0
    /\ sheet = None
    /\ ran = <<>>
    /\ all_sheet_reports = <<>>
    /\ inferred_target_table = NoName
    /\ final_output = None
    /\ schema_history = <<>>
    /\ now = 0

\* most sample values or row positions a violation carries ([:5], >= 5)
SampleLimit == 5

----------------------------------------------------------------------------
(* Cell values.  A cell of a pandas column is a null (NaN/None), an        *)
(* integer, or a text; a text is its sequence of characters.               *)

Null == [t |-> "null"]
I(n) == [t |-> "int", n |-> n]
S(s) == [t |-> "str", s |-> s]

IsNull(c) == c.t = "null"

DigitChars == <<"0", "1", "2", "3", "4", "5", "6", "7", "8", "9">>

IsDigit(ch) == \E d \in 1..10 : DigitChars[d] = ch

DigitValue(ch) == (CHOOSE d \in 1..10 : DigitChars[d] = ch) - 1

\* value of a non-empty sequence of digit characters
RECURSIVE DigitsValue(_)
DigitsValue(s) ==
    IF Len(s) = 0 THEN 0
    ELSE 10 * DigitsValue(SubSeq(s, 1, Len(s) - 1)) + DigitValue(s[Len(s)])

AllDigits(s) == Len(s) > 0 /\ \A i \in 1..Len(s) : IsDigit(s[i])

NaN == [num |-> FALSE]
Num(n) == [num |-> TRUE, n |-> n]

\* float(text) / pd.to_numeric(text): an optional sign and digits
ParseNumber(s) ==
    IF AllDigits(s) THEN Num(DigitsValue(s))
    ELSE IF Len(s) > 1 /\ s[1] = "-" /\ AllDigits(Tail(s))
         THEN Num(0 - DigitsValue(Tail(s)))
    ELSE NaN

\* pd.to_numeric(value, errors='coerce') of one cell
ToNumeric(c) ==
    CASE c.t = "int" -> Num(c.n)
      [] c.t = "str" -> ParseNumber(c.s)
      [] OTHER -> NaN

RECURSIVE NatChars(_)
NatChars(n) ==
    IF n < 10 THEN <<DigitChars[n + 1]>>
    ELSE NatChars(n \div 10) \o <<DigitChars[(n % 10) + 1]>>

\* str(value): the characters of the value
Str(c) ==
    CASE c.t = "int" -> IF c.n < 0 THEN <<"-">> \o NatChars(0 - c.n) ELSE NatChars(c.n)
      [] c.t = "str" -> c.s
      [] OTHER -> <<"n", "a", "n">>

----------------------------------------------------------------------------
(* pandas data frames: column labels (repeats allowed), the row labels of  *)
(* the index, one sequence of cells per column, and each column's dtype.   *)
(* The dtype is inferred when the frame is loaded and kept when rows are   *)
(* dropped or columns renamed.                                             *)

\* Series.dtype as pandas infers it from the loaded values
DType(values) ==
    IF \E i \in 1..Len(values) : values[i].t = "str" THEN "object"
    ELSE IF Len(values) = 0 THEN "object"
    ELSE IF \E i \in 1..Len(values) : values[i].t = "null" THEN "float64"
    ELSE "int64"

\* a frame as loaded from a file
DataFrame(columns, index, data) ==
    [columns |-> columns, index |-> index, data |-> data,
     dtypes |-> [i \in 1..Len(data) |-> DType(data[i])]]

NRows(df) == Len(df.index)

\* positions of the columns labelled name
ColPositions(df, name) == {i \in 1..Len(df.columns) : df.columns[i] = name}

\* name in df.columns
HasColumn(df, name) == ColPositions(df, name) /= {}

\* a frame in which df[name] is always taken for one column
NeverDuplicate(df, name) == FALSE

\* isinstance(df[name], pd.DataFrame): the label is carried by several columns
IsDuplicateColumn(df, name) == Cardinality(ColPositions(df, name)) > 1

\* df[name] for a label carried by one column
Series(df, name) == df.data[CHOOSE i \in ColPositions(df, name) : TRUE]

\* df[name].dtype
SeriesDType(df, name) == df.dtypes[CHOOSE i \in ColPositions(df, name) : TRUE]

\* pd.api.types.is_numeric_dtype
IsNumericDtype(d) == d \in {"int64", "float64", "bool"}

\* pd.api.types.is_datetime64_any_dtype
IsDatetimeDtype(d) == d = "datetime64[ns]"

\* Series.unique(): the distinct values in order of first appearance
RECURSIVE Unique(_)
Unique(s) ==
    IF Len(s) = 0 THEN <<>>
    ELSE LET u == Unique(SubSeq(s, 1, Len(s) - 1))
         IN IF s[Len(s)] \in Range(u) THEN u ELSE Append(u, s[Len(s)])


----------------------------------------------------------------------------
(* validate_data_types (src/tools.py)                                      *)

\* str(type).split('(')[0].upper()
TypeBase(type) == type[1]

DateTypes == {"DATE", "DATETIME", "TIMESTAMP"}

\* sql_to_pandas_map after the inversion loop: a type listed under 'object'
\* and under another dtype keeps the other one; None for an unknown base
SqlToPandas(base) ==
    CASE base \in {"INTEGER", "INT"} -> "int64"
      [] base \in {"REAL", "FLOAT", "NUMERIC"} -> "float64"
      [] base \in {"TEXT", "VARCHAR", "CHAR"} -> "object"
      [] base \in DateTypes -> "datetime64[ns]"
      [] base \in {"BOOLEAN", "BOOL"} -> "bool"
      [] OTHER -> "None"

\* whether the column's dtype is flagged against its declared type
TypeMismatch(file_dtype, db_type_base) ==
    LET expected_pd_type_category == SqlToPandas(db_type_base)
    IN /\ expected_pd_type_category /= "None"
       /\ file_dtype /= expected_pd_type_category
       /\ ~(db_type_base \in DateTypes /\ file_dtype = "object")

\* df[col].dropna().unique()
NonNullUnique(values) ==
    Unique(Pick(values, Positions([i \in 1..Len(values) |-> ~IsNull(values[i])])))

\* the values kept by a sampling loop: those that offend, up to the limit
\* (the loop breaks once it holds SampleLimit values)
OffendingSamples(candidates, offends(_)) ==
    Take([k \in 1..Len(SelectSeq(candidates, offends)) |->
            Str(SelectSeq(candidates, offends)[k])], SampleLimit)

\* sample_invalid_values of one mismatched column
SampleInvalidValues(values, expected_pd_type_category, file_dtype) ==
    LET candidates == NonNullUnique(values)
        notNumeric(v) == ~ToNumeric(v).num
    IN IF expected_pd_type_category = "int64" /\ file_dtype = "object"
       THEN \* fails numeric parsing, or parses to a non-integral number
            OffendingSamples(candidates, notNumeric)
       ELSE IF expected_pd_type_category = "float64" /\ file_dtype = "object"
       THEN OffendingSamples(candidates, notNumeric)
       ELSE IF file_dtype = "object"
       THEN [k \in 1..Min(SampleLimit, Len(candidates)) |-> Str(candidates[k])]
       ELSE <<>>

\* the body of the loop over db_schema.items()
ColumnTypeViolations(df, col) ==
    IF ~HasColumn(df, col.name) THEN <<>>
    ELSE IF IsDuplicateColumn(df, col.name) THEN <<>>
    ELSE LET values == Series(df, col.name)
             file_dtype == SeriesDType(df, col.name)
             db_type_base == TypeBase(col.type)
         IN IF TypeMismatch(file_dtype, db_type_base)
            THEN << [column |-> col.name,
                     expected_db_type |-> db_type_base,
                     found_file_type |-> file_dtype,
                     sample_invalid_values |->
                         Take(SampleInvalidValues(values, SqlToPandas(db_type_base), file_dtype),
                              SampleLimit)] >>
            ELSE <<>>

\* a loop that goes through the table's columns last to first
RECURSIVE validate_data_types_reversed(_, _)
validate_data_types_reversed(df, db_schema) ==
    IF Len(db_schema) = 0 THEN <<>>
    ELSE validate_data_types_reversed(df, Tail(db_schema))
         \o ColumnTypeViolations(df, Head(db_schema))

RECURSIVE validate_data_types(_, _)
validate_data_types(df, db_schema) ==
    IF Len(db_schema) = 0 THEN <<>>
    ELSE ColumnTypeViolations(df, Head(db_schema))
         \o validate_data_types(df, Tail(db_schema))

----------------------------------------------------------------------------
(* run_data_quality_checks (src/tools.py)                                  *)
(*                                                                         *)
(* db_schema is the sequence of the table's columns in dict order, each    *)
(* [name, type, nullable, primary_key]; a type is its base name followed   *)
(* by its parameters, if any: <<"VARCHAR", "(50)">>.  A CHECK constraint is *)
(* [name, sqltext]; sqltext is the expression as its sequence of lexical   *)
(* tokens: identifiers, operators, numeric literals, keywords, string      *)
(* literals.                                                               *)

Id(v) == [k |-> "id", v |-> v]
Op(v) == [k |-> "op", v |-> v]
Lit(n) == [k |-> "num", n |-> n]
Kw(v) == [k |-> "kw", v |-> v]
StrLit(v) == [k |-> "strlit", v |-> v]

ComparisonOperators == {">=", "<=", ">", "<", "!=", "="}

\* db_col_name in c.get('sqltext', ''): the expression mentions the column
MentionsColumn(sqltext, name) ==
    \E i \in 1..Len(sqltext) : sqltext[i].k = "id" /\ sqltext[i].v = name

NoMatch == [matched |-> FALSE]

\* re.match(<column> <operator> <number>, sqltext): the pattern is matched
\* at the start of the expression; what follows the number is not looked at
ReMatch(name, sqltext) ==
    IF /\ Len(sqltext) >= 3
       /\ sqltext[1].k = "id" /\ sqltext[1].v = name
       /\ sqltext[2].k = "op" /\ sqltext[2].v \in ComparisonOperators
       /\ sqltext[3].k = "num"
    THEN [matched |-> TRUE, operator |-> sqltext[2].v, value |-> sqltext[3].n]
    ELSE NoMatch

\* one row of  numeric_col <cmp> value : a comparison with NaN is False,
\* except != which is True
RowViolates(operator, x, value) ==
    CASE operator = ">"  -> x.num /\ x.n <= value
      [] operator = ">=" -> x.num /\ x.n < value
      [] operator = "<"  -> x.num /\ x.n >= value
      [] operator = "<=" -> x.num /\ x.n > value
      [] operator = "!=" -> x.num /\ x.n = value
      [] operator = "="  -> (~x.num) \/ x.n /= value
      [] OTHER -> FALSE

\* column_data.isnull()
IsNullMask(values) == [i \in 1..Len(values) |-> IsNull(values[i])]

\* column_data == ''
IsEmptyStringMask(values) ==
    [i \in 1..Len(values) |-> values[i].t = "str" /\ values[i].s = <<>>]

\* null_count of the not-null check: the nulls, plus the empty strings when
\* the dtype is numeric or datetime and, at the same time, object
NullCount(values, dtype) ==
    LET null_count == CountTrue(IsNullMask(values))
        empty_string_count ==
            IF (IsNumericDtype(dtype) \/ IsDatetimeDtype(dtype)) /\ dtype = "object"
            THEN CountTrue(IsEmptyStringMask(values))
            ELSE 0
    IN null_count + empty_string_count

\* rows sampled for a not-null violation
NullSampleMask(values, dtype) ==
    [i \in 1..Len(values) |->
        IsNullMask(values)[i] \/ (dtype = "object" /\ IsEmptyStringMask(values)[i])]

\* 1. Null check
NotNullCheck(df, col) ==
    LET values == Series(df, col.name)
        dtype == SeriesDType(df, col.name)
        null_count == NullCount(values, dtype)
    IN IF (~col.nullable) /\ null_count > 0
       THEN << [column |-> col.name,
                check |-> "not_null_violation",
                count |-> null_count,
                affected_rows_sample_indices |->
                    Take(Pick(df.index, Positions(NullSampleMask(values, dtype))), SampleLimit),
                severity |-> "high"] >>
       ELSE <<>>

\* NonNullKeys without the dropna: null keys stay in
NonNullKeysKeepNulls(values) == values

\* df.dropna(subset=[name])[name]: the non-null keys, in row order
NonNullKeys(values) ==
    Pick(values, Positions([i \in 1..Len(values) |-> ~IsNull(values[i])]))

\* DuplicatedKeys with duplicated()'s default keep='first': the first row of
\* a repeated key is not marked
DuplicatedKeysKeepFirst(keys) ==
    Pick(keys, Positions([i \in 1..Len(keys) |->
                            \E j \in 1..(i - 1) : keys[j] = keys[i]]))

\* keys[duplicated(keep=False)]: every key that occurs in another row too
DuplicatedKeys(keys) ==
    Pick(keys, Positions([i \in 1..Len(keys) |->
                            \E j \in 1..Len(keys) : j /= i /\ keys[j] = keys[i]]))

\* 2. Uniqueness check
PrimaryKeyCheck(df, col) ==
    LET values == Series(df, col.name)
        duplicates == DuplicatedKeys(NonNullKeys(values))
        distinct_duplicate_values == Unique(duplicates)
        duplicate_record_count == Len(duplicates)
        distinct_keys_duplicated == Len(distinct_duplicate_values)
    IN IF col.primary_key /\ distinct_keys_duplicated > 0
       THEN << [column |-> col.name,
                check |-> "primary_key_violation",
                distinct_keys_duplicated |-> distinct_keys_duplicated,
                total_duplicate_records |-> duplicate_record_count,
                sample_duplicate_values |->
                    [k \in 1..Min(SampleLimit, distinct_keys_duplicated) |->
                        Str(distinct_duplicate_values[k])],
                severity |-> "high"] >>
       ELSE <<>>

\* numeric_col.notna().all()
AllNumeric(numeric_col) == \A i \in 1..Len(numeric_col) : numeric_col[i].num

\* one constraint of col_check_constraints
EvaluateConstraint(df, name, constraint) ==
    LET values == Series(df, name)
        numeric_col == [i \in 1..Len(values) |-> ToNumeric(values[i])]
        is_numeric == AllNumeric(numeric_col)
        match == ReMatch(name, constraint.sqltext)
    IN IF match.matched /\ is_numeric
       THEN LET violated_rows ==
                    [i \in 1..Len(values) |->
                        RowViolates(match.operator, numeric_col[i], match.value)
                        /\ numeric_col[i].num]
                violation_count == CountTrue(violated_rows)
                affected_indices == Take(Positions(violated_rows), SampleLimit)
            IN IF violation_count > 0
               THEN << [column |-> name,
                        check |-> "check_constraint_violation",
                        constraint_name |-> constraint.name,
                        sqltext |-> constraint.sqltext,
                        count |-> violation_count,
                        affected_rows_sample_indices |-> Pick(df.index, affected_indices),
                        sample_violating_values |->
                            [k \in 1..Len(affected_indices) |-> Str(values[affected_indices[k]])],
                        severity |-> "medium"] >>
               ELSE <<>>
       ELSE <<>>

RECURSIVE EvaluateConstraints(_, _, _)
EvaluateConstraints(df, name, constraints) ==
    IF Len(constraints) = 0 THEN <<>>
    ELSE EvaluateConstraint(df, name, Head(constraints))
         \o EvaluateConstraints(df, name, Tail(constraints))

\* 3. Check constraints
CheckConstraintCheck(df, col, check_constraints) ==
    LET mentions(c) == MentionsColumn(c.sqltext, col.name)
        col_check_constraints == SelectSeq(check_constraints, mentions)
    IN EvaluateConstraints(df, col.name, col_check_constraints)

\* the body of the loop over db_schema.items()
ColumnChecks(df, col, check_constraints) ==
    IF ~HasColumn(df, col.name) THEN <<>>
    ELSE IF IsDuplicateColumn(df, col.name) THEN <<>>
    ELSE NotNullCheck(df, col)
         \o PrimaryKeyCheck(df, col)
         \o CheckConstraintCheck(df, col, check_constraints)

\* a fetch whose failure leaves the constraints in place
FetchCheckConstraintsAnyway(table_constraints, raises) == table_constraints

\* inspector.get_check_constraints(table_name), [] when it raises
FetchCheckConstraints(table_constraints, raises) ==
    IF raises THEN <<>> ELSE table_constraints

RECURSIVE DQLoop(_, _, _)
DQLoop(df, db_schema, check_constraints) ==
    IF Len(db_schema) = 0 THEN <<>>
    ELSE ColumnChecks(df, Head(db_schema), check_constraints)
         \o DQLoop(df, Tail(db_schema), check_constraints)

run_data_quality_checks(df, db_schema, table_constraints, raises) ==
    DQLoop(df, db_schema, FetchCheckConstraints(table_constraints, raises))


----------------------------------------------------------------------------
(* extract_schema_from_df (src/tools.py)                                   *)

\* rows in which some column holds a value
NonEmptyRows(df) ==
    [r \in 1..NRows(df) |-> \E c \in 1..Len(df.columns) : ~IsNull(df.data[c][r])]

\* an extraction that leaves the caller's frame as it was loaded
KeepEmptyRows(df) == df

\* df.dropna(how='all', inplace=True): the kept rows keep their labels
DropEmptyRows(df) ==
    LET kept == Positions(NonEmptyRows(df))
    IN [columns |-> df.columns,
        index |-> Pick(df.index, kept),
        data |-> [c \in 1..Len(df.columns) |-> Pick(df.data[c], kept)],
        dtypes |-> df.dtypes]

\* df.empty
IsEmptyFrame(df) == Len(df.columns) = 0 \/ NRows(df) = 0

\* the ColumnProfile of one column
ColumnProfile(values, dtype) ==
    [inferred_type |-> dtype,
     sample_values |-> Take(Unique(Pick(values,
                            Positions([i \in 1..Len(values) |-> ~IsNull(values[i])]))),
                            SampleLimit),
     null_count |-> CountTrue([i \in 1..Len(values) |-> IsNull(values[i])])]

\* an extraction that reports a sheet without data as an error
extract_schema_empty_is_error(df, file_name, sheet_name, fault) ==
    [df |-> DropEmptyRows(df),
     file_schema |-> [file_name |-> file_name, sheet_name |-> sheet_name,
                      total_rows |-> 0, columns |-> [n \in {} |-> 0],
                      error |-> "empty"]]

\* the FileSchema of a frame, and the frame as the call leaves it.  fault:
\* profiling raised (as df[col].unique() does for a repeated label)
extract_schema_from_df(df, file_name, sheet_name, fault) ==
    LET dropped == DropEmptyRows(df)
        minimal == [file_name |-> file_name, sheet_name |-> sheet_name,
                    total_rows |-> 0, columns |-> [n \in {} |-> 0]]
    IN IF IsEmptyFrame(dropped)
       THEN [df |-> dropped, file_schema |-> minimal]
       ELSE IF fault \/ \E n \in Range(dropped.columns) : IsDuplicateColumn(dropped, n)
       THEN [df |-> dropped,
             file_schema |-> [file_name |-> file_name, sheet_name |-> sheet_name,
                              total_rows |-> 0, columns |-> [n \in {} |-> 0],
                              error |-> "fault"]]
       ELSE [df |-> dropped,
             file_schema |->
                [file_name |-> file_name, sheet_name |-> sheet_name,
                 total_rows |-> NRows(dropped),
                 total_columns |-> Len(dropped.columns),
                 columns |-> [n \in Range(dropped.columns) |->
                                ColumnProfile(Series(dropped, n), SeriesDType(dropped, n))]]]

\* df.rename(columns=naming_mismatches): a new frame with the labels mapped
Rename(df, naming_mismatches) ==
    [df EXCEPT !.columns =
        [c \in 1..Len(df.columns) |->
            IF df.columns[c] \in DOMAIN naming_mismatches
            THEN naming_mismatches[df.columns[c]]
            ELSE df.columns[c]]]

----------------------------------------------------------------------------
(* Calls of run_data_quality_checks: the arguments are drawn from two      *)
(* families of tables, one exercising the key columns (nulls, empty        *)
(* strings, repeated keys), one exercising CHECK constraints.              *)

Column(name, type, nullable, primary_key) ==
    [name |-> name, type |-> type, nullable |-> nullable, primary_key |-> primary_key]

Constraint(name, sqltext) == [name |-> name, sqltext |-> sqltext]

\* rows 0..n-1 of a freshly loaded frame
RangeIndex(n) == [i \in 1..n |-> i - 1]

KeyCells == {Null, S(<<>>), S(<<"A">>), S(<<"B">>), I(1)}

CheckCells == {Null, I(5), I(0), I(-1), S(<<"a", "b", "c">>), S(<<"7">>)}

QuantityPositive == Constraint("ck_quantity", <<Id("Quantity"), Op(">"), Lit(0)>>)

\* CHECK expressions of the single-column form <column> <op> <number>
SimpleConstraints ==
    {Constraint("ck_simple", <<Id("Quantity"), Op(o), Lit(0)>>) : o \in ComparisonOperators}

\* CHECK expressions that are not of that form
ComplexConstraints ==
    { Constraint("ck_and", <<Id("Quantity"), Op(">"), Lit(0), Kw("AND"),
                             Id("Price"), Op(">"), Lit(0)>>),
      Constraint("ck_and_rev", <<Id("Price"), Op(">"), Lit(0), Kw("AND"),
                                 Id("Quantity"), Op(">"), Lit(0)>>),
      Constraint("ck_or", <<Id("Quantity"), Op(">"), Lit(0), Kw("OR"),
                            Id("Status"), Op("="), StrLit("x")>>),
      Constraint("ck_columns", <<Id("Quantity"), Op(">"), Id("Price")>>),
      Constraint("ck_between", <<Id("Quantity"), Kw("BETWEEN"), Lit(0), Kw("AND"), Lit(5)>>),
      Constraint("ck_ne", <<Id("Quantity"), Op("<>"), Lit(0)>>) }

\* whether a CHECK expression is exactly <column> <op> <number> for some column
IsSimpleComparison(sqltext) ==
    /\ Len(sqltext) = 3
    /\ sqltext[1].k = "id"
    /\ sqltext[2].k = "op" /\ sqltext[2].v \in ComparisonOperators
    /\ sqltext[3].k = "num"

\* the table's CHECK constraints and whether fetching them raises
ConstraintFetches ==
    { [table_constraints |-> <<>>, raises |-> FALSE],
      [table_constraints |-> <<QuantityPositive>>, raises |-> FALSE],
      [table_constraints |-> <<QuantityPositive>>, raises |-> TRUE] }

\* a one-column frame and table, of at most max_rows rows
KeyCalls(max_rows) ==
    { [fn |-> "run_data_quality_checks",
       df |-> DataFrame(<<"Quantity">>, RangeIndex(Len(q)), <<q>>),
       db_schema |-> <<Column("Quantity", <<"INTEGER">>, nullable, primary_key)>>,
       table_constraints |-> fetch.table_constraints,
       raises |-> fetch.raises] :
         q \in SeqsUpTo(KeyCells, max_rows),
         nullable \in BOOLEAN, primary_key \in BOOLEAN,
         fetch \in ConstraintFetches }

\* a frame and table with the columns Quantity and Price, of at most
\* max_rows rows
CheckCalls(max_rows) ==
    { [fn |-> "run_data_quality_checks",
       df |-> DataFrame(<<"Quantity", "Price">>, RangeIndex(Len(q)),
                        <<q, [i \in 1..Len(q) |-> I(0)]>>),
       db_schema |-> <<Column("Quantity", <<"INTEGER">>, TRUE, FALSE),
                       Column("Price", <<"REAL">>, TRUE, FALSE)>>,
       table_constraints |-> <<c>>,
       raises |-> FALSE] :
         q \in SeqsUpTo(CheckCells, max_rows),
         c \in SimpleConstraints \cup ComplexConstraints }

\* a one-column frame and table with a CHECK constraint that cannot be
\* fetched, of at most max_rows rows
FailedFetchCalls(max_rows) ==
    { [fn |-> "run_data_quality_checks",
       df |-> DataFrame(<<"Quantity">>, RangeIndex(Len(q)), <<q>>),
       db_schema |-> <<Column("Quantity", <<"INTEGER">>, nullable, primary_key)>>,
       table_constraints |-> <<QuantityPositive>>,
       raises |-> TRUE] :
         q \in SeqsUpTo(CheckCells, max_rows),
         nullable \in BOOLEAN, primary_key \in BOOLEAN }

InitDQ ==
    /\ \/ call \in KeyCalls(MaxRows)
       \/ call \in CheckCalls(MaxRows)
       \/ call \in FailedFetchCalls(MaxRows)
    /\ ret = NotCalled
    /\ NoRun

CallDataQualityChecks ==
    /\ call.fn = "run_data_quality_checks"
    /\ ~ret.called
    /\ ret' = [called |-> TRUE,
               value |-> run_data_quality_checks(call.df, call.db_schema,
                                                 call.table_constraints, call.raises)]
    /\ UNCHANGED call
    /\ UNCHANGED runVars

NextDQ == CallDataQualityChecks

SpecDQ == InitDQ /\ [][NextDQ]_vars


----------------------------------------------------------------------------
(* Properties of run_data_quality_checks                                   *)

DQCalled == call.fn = "run_data_quality_checks" /\ ret.called

\* the violations of one kind reported for one column
ViolationsOf(result, column, check) ==
    LET wanted(v) == v.column = column /\ v.check = check
    IN SelectSeq(result, wanted)

\* the columns of the table that the checks examine: in the data, under one label
ExaminedColumns ==
    {k \in 1..Len(call.db_schema) :
        /\ HasColumn(call.df, call.db_schema[k].name)
        /\ ~IsDuplicateColumn(call.df, call.db_schema[k].name)}

\* <x> <operator> <value> as SQL reads it
Satisfies(operator, x, value) ==
    CASE operator = ">"  -> x > value
      [] operator = ">=" -> x >= value
      [] operator = "<"  -> x < value
      [] operator = "<=" -> x <= value
      [] operator = "="  -> x = value
      [] operator = "!=" -> x /= value

\* rows whose value coerces to a number and fails the comparison
FailingRows(values, sqltext) ==
    {i \in 1..Len(values) :
        /\ ToNumeric(values[i]).num
        /\ ~Satisfies(sqltext[2].v, ToNumeric(values[i]).n, sqltext[3].n)}

\* the check_constraint_violation counts reported for a column and an expression
CheckCounts(result, column, sqltext) ==
    LET wanted(v) == v.column = column /\ v.check = "check_constraint_violation"
                     /\ v.sqltext = sqltext
        hits == SelectSeq(result, wanted)
    IN [k \in 1..Len(hits) |-> hits[k].count]

\* C3: for a CHECK constraint <column> <op> <number>, the reported count is
\* the number of rows whose value coerces to a number and fails the
\* comparison; values that do not coerce, and nulls, are left out and do not
\* stop the other rows from being evaluated (one violation when the count is
\* positive, none otherwise).
C3_CheckCountsCoercibleRows ==
    (DQCalled /\ ~call.raises) =>
        \A k \in ExaminedColumns : \A j \in 1..Len(call.table_constraints) :
            LET name == call.db_schema[k].name
                sqltext == call.table_constraints[j].sqltext
                expected == Cardinality(FailingRows(Series(call.df, name), sqltext))
            IN (IsSimpleComparison(sqltext) /\ sqltext[1].v = name) =>
                   CheckCounts(ret.value, name, sqltext) =
                       IF expected > 0 THEN <<expected>> ELSE <<>>

TextTypes == {"TEXT", "VARCHAR", "CHAR"}

\* C4: in the not-null check, for a non-nullable column of a non-text
\* database type whose data is stored as text, the empty strings are counted
\* together with the nulls.
C4_EmptyStringsCountAsNulls ==
    DQCalled =>
        \A k \in ExaminedColumns :
            LET col == call.db_schema[k]
                values == Series(call.df, col.name)
                expected == CountTrue(IsNullMask(values)) + CountTrue(IsEmptyStringMask(values))
                reported == ViolationsOf(ret.value, col.name, "not_null_violation")
            IN ((~col.nullable) /\ TypeBase(col.type) \notin TextTypes
                /\ SeriesDType(call.df, col.name) = "object"
                /\ expected > 0) =>
                   Len(reported) = 1 /\ reported[1].count = expected

\* the index labels of the rows whose value in the column is null: the rows
\* that null_count counts
NullRowLabels(df, name) ==
    {df.index[i] : i \in {i \in 1..NRows(df) : IsNull(Series(df, name)[i])}}

\* C29: in every not_null_violation the sample row positions are positions
\* of rows that were counted in count: there are min(5, count) of them and
\* never more than count, also for a text-stored column that holds empty
\* strings.
C29_NullSamplesAreCountedRows ==
    DQCalled =>
        \A k \in 1..Len(ret.value) :
            LET v == ret.value[k]
            IN v.check = "not_null_violation" =>
                 /\ Range(v.affected_rows_sample_indices) \subseteq
                        NullRowLabels(call.df, v.column)
                 /\ Len(v.affected_rows_sample_indices) = Min(SampleLimit, v.count)
                 /\ Len(v.affected_rows_sample_indices) <= v.count

\* C5: a CHECK constraint whose expression is not exactly a single-column
\* comparison <column> <op> <number> never produces a
\* check_constraint_violation.
C5_ComplexConstraintsSkipped ==
    DQCalled =>
        \A k \in 1..Len(ret.value) :
            ret.value[k].check = "check_constraint_violation" =>
                IsSimpleComparison(ret.value[k].sqltext)

\* the non-null values that occur in at least two rows
RepeatedValues(values) ==
    {values[i] : i \in {i \in 1..Len(values) :
        ~IsNull(values[i]) /\ \E j \in 1..Len(values) : j /= i /\ values[j] = values[i]}}

\* the rows that hold a value
RowsHolding(values, S_) == {i \in 1..Len(values) : values[i] \in S_}

\* C9: for a primary-key column, exactly one primary_key_violation is
\* emitted iff some non-null value occurs in at least two rows (none
\* otherwise); its distinct_keys_duplicated is the number of distinct non-null
\* values that occur more than once and its total_duplicate_records the
\* number of rows holding them.
C9_PrimaryKeyDuplicates ==
    DQCalled =>
        \A k \in ExaminedColumns :
            LET col == call.db_schema[k]
                values == Series(call.df, col.name)
                repeated == RepeatedValues(values)
                reported == ViolationsOf(ret.value, col.name, "primary_key_violation")
            IN col.primary_key =>
                   IF repeated = {} THEN Len(reported) = 0
                   ELSE /\ Len(reported) = 1
                        /\ reported[1].distinct_keys_duplicated = Cardinality(repeated)
                        /\ reported[1].total_duplicate_records =
                               Cardinality(RowsHolding(values, repeated))

\* C9 witness: the key column ["A", "A", "B"] gives one violation, 1 key, 2 rows
C9_Witness ==
    /\ DQCalled
    /\ call.db_schema[1].primary_key
    /\ Series(call.df, "Quantity") = <<S(<<"A">>), S(<<"A">>), S(<<"B">>)>>
    /\ LET reported == ViolationsOf(ret.value, "Quantity", "primary_key_violation")
       IN /\ Len(reported) = 1
          /\ reported[1].distinct_keys_duplicated = 1
          /\ reported[1].total_duplicate_records = 2

\* C10: null primary keys never count towards uniqueness: when the only
\* repeated value of a primary-key column is null, no primary_key_violation
\* is emitted; if the column is also non-nullable, its nulls are reported as
\* one not_null_violation.
C10_NullKeysNotDuplicates ==
    DQCalled =>
        \A k \in ExaminedColumns :
            LET col == call.db_schema[k]
                values == Series(call.df, col.name)
                nulls == CountTrue(IsNullMask(values))
            IN (col.primary_key /\ nulls >= 2 /\ RepeatedValues(values) = {}) =>
                   /\ ViolationsOf(ret.value, col.name, "primary_key_violation") = <<>>
                   /\ (~col.nullable) =>
                         LET reported == ViolationsOf(ret.value, col.name, "not_null_violation")
                         IN Len(reported) = 1 /\ reported[1].count >= nulls

\* C10 witness: a non-nullable key column with several nulls and distinct
\* other values, checked
C10_Witness ==
    /\ DQCalled
    /\ call.db_schema[1].primary_key /\ ~call.db_schema[1].nullable
    /\ Series(call.df, "Quantity") = <<Null, S(<<"A">>), Null, S(<<"B">>)>>
    /\ Len(ViolationsOf(ret.value, "Quantity", "not_null_violation")) = 1
    /\ ViolationsOf(ret.value, "Quantity", "primary_key_violation") = <<>>


----------------------------------------------------------------------------
(* compare_schemas (src/tools.py)                                          *)
(*                                                                         *)
(* A FileSchema is the dict extract_schema_from_df returns: a record whose *)
(* domain is the set of keys present; "columns" maps each column name to   *)
(* its profile.  The two lists of the result are unordered (built from     *)
(* Python sets) and are modelled as sets.                                  *)

\* set(file_schema.get('columns', {}).keys())
FileColumns(file_schema) ==
    IF "columns" \in DOMAIN file_schema THEN DOMAIN file_schema.columns ELSE {}

\* set(db_schema.keys())
DBColumns(db_schema) == {db_schema[k].name : k \in 1..Len(db_schema)}

\* the lower-case form of a column name
LowerName(name) ==
    CASE name = "Qty" -> "qty"
      [] name = "OrderID" -> "orderid"
      [] name = "CustomerID" -> "customerid"
      [] name = "Quantity" -> "quantity"
      [] OTHER -> name

\* compare_schemas matching the names without regard to case
compare_schemas_ignoring_case(file_schema, db_schema) ==
    LET file_columns == FileColumns(file_schema)
        db_columns == DBColumns(db_schema)
        lower(names) == {LowerName(n) : n \in names}
    IN [columns_missing_from_file |->
            {n \in db_columns : LowerName(n) \notin lower(file_columns)},
        columns_extra_in_file |->
            {n \in file_columns : LowerName(n) \notin lower(db_columns)}]

compare_schemas(file_schema, db_schema) ==
    IF IsNone(file_schema)
    THEN \* "error" in None raises: the except branch
         [columns_missing_from_file |-> DBColumns(db_schema),
          columns_extra_in_file |-> {}]
    ELSE IF "error" \in DOMAIN file_schema \/ "columns" \notin DOMAIN file_schema
    THEN [missing_in_file |-> DBColumns(db_schema), extra_in_file |-> {}]
    ELSE LET file_columns == FileColumns(file_schema)
             db_columns == DBColumns(db_schema)
         IN [columns_missing_from_file |-> db_columns \ file_columns,
             columns_extra_in_file |-> file_columns \ db_columns]

----------------------------------------------------------------------------
(* Calls of compare_schemas                                                *)

ColumnNames == <<"OrderID", "CustomerID", "Quantity", "Qty", "qty">>

\* a ColumnProfile as extract_schema_from_df builds it
Profile(inferred_type, sample_values, null_count) ==
    [inferred_type |-> inferred_type, sample_values |-> sample_values,
     null_count |-> null_count]

\* the FileSchema of a sheet with the given columns
SchemaWithColumns(names) ==
    [file_name |-> "orders.xlsx", sheet_name |-> "Sheet1",
     total_rows |-> 1, total_columns |-> Cardinality(names),
     columns |-> [n \in names |-> Profile("object", <<>>, 0)]]

\* the FileSchema of a sheet without rows
EmptySchema ==
    [file_name |-> "orders.xlsx", sheet_name |-> "Sheet1",
     total_rows |-> 0, columns |-> [n \in {} |-> Profile("object", <<>>, 0)]]

\* the minimal FileSchema returned when profiling faulted
ErrorSchema ==
    [file_name |-> "orders.xlsx", sheet_name |-> "Sheet1",
     total_rows |-> 0, columns |-> [n \in {} |-> Profile("object", <<>>, 0)],
     error |-> "fault"]

FileSchemas ==
    {SchemaWithColumns(names) : names \in SUBSET Range(ColumnNames)}
        \cup {EmptySchema, ErrorSchema, None}

\* the table whose columns are the names of ColumnNames at the given positions
TableWithColumns(positions) ==
    LET keep == [i \in 1..Len(ColumnNames) |-> i \in positions]
        p == Positions(keep)
    IN [k \in 1..Len(p) |-> Column(ColumnNames[p[k]], <<"INTEGER">>, TRUE, FALSE)]

DBSchemas == {TableWithColumns(positions) : positions \in SUBSET (1..Len(ColumnNames))}

CompareCalls ==
    { [fn |-> "compare_schemas", file_schema |-> fs, db_schema |-> db] :
        fs \in FileSchemas, db \in DBSchemas }

InitCompare ==
    /\ call \in CompareCalls
    /\ ret = NotCalled
    /\ NoRun

CallCompareSchemas ==
    /\ call.fn = "compare_schemas"
    /\ ~ret.called
    /\ ret' = [called |-> TRUE, value |-> compare_schemas(call.file_schema, call.db_schema)]
    /\ UNCHANGED call
    /\ UNCHANGED runVars

NextCompare == CallCompareSchemas

SpecCompare == InitCompare /\ [][NextCompare]_vars

----------------------------------------------------------------------------
(* Properties of compare_schemas                                           *)

CompareCalled == call.fn = "compare_schemas" /\ ret.called

RawComparisonKeys == {"columns_missing_from_file", "columns_extra_in_file"}

\* C6: for every FileSchema/DBSchema pair, columnsMissingFromFile and
\* columnsExtraInFile are disjoint, and together with the matched columns
\* (names in both schemas) they make up the union of the two schemas' names.
C6_ComparisonPartitionsColumns ==
    CompareCalled =>
        LET r == ret.value
            file_names == FileColumns(call.file_schema)
            db_names == DBColumns(call.db_schema)
        IN /\ RawComparisonKeys \subseteq DOMAIN r
           /\ r.columns_missing_from_file \cap r.columns_extra_in_file = {}
           /\ r.columns_missing_from_file \cup r.columns_extra_in_file
                    \cup (file_names \cap db_names)
                  = file_names \cup db_names

\* a FileSchema with columns and no error: the case the set difference handles
HasReadableColumns(file_schema) ==
    /\ ~IsNone(file_schema)
    /\ "error" \notin DOMAIN file_schema
    /\ "columns" \in DOMAIN file_schema

\* C7: the comparison is an exact, case-sensitive set difference by name:
\* a name is reported missing iff it is a DB column absent from the file,
\* and reported extra iff it is a file column absent from the DB.
C7_ExactNameDifference ==
    (CompareCalled /\ HasReadableColumns(call.file_schema)) =>
        LET r == ret.value
        IN /\ DOMAIN r = RawComparisonKeys
           /\ \A n \in Range(ColumnNames) :
                /\ n \in r.columns_missing_from_file <=>
                       (n \in DBColumns(call.db_schema) /\ n \notin DOMAIN call.file_schema.columns)
                /\ n \in r.columns_extra_in_file <=>
                       (n \in DOMAIN call.file_schema.columns /\ n \notin DBColumns(call.db_schema))
           /\ r.columns_missing_from_file \cup r.columns_extra_in_file \subseteq Range(ColumnNames)

\* C7 witness: DB {OrderID, CustomerID, Quantity} against file {OrderID, Qty}
C7_Witness ==
    /\ CompareCalled
    /\ HasReadableColumns(call.file_schema)
    /\ DBColumns(call.db_schema) = {"OrderID", "CustomerID", "Quantity"}
    /\ DOMAIN call.file_schema.columns = {"OrderID", "Qty"}
    /\ ret.value.columns_missing_from_file = {"CustomerID", "Quantity"}
    /\ ret.value.columns_extra_in_file = {"Qty"}

\* C8: when the FileSchema carries an error or has no columns, the result
\* has the same two fields as in the normal case, with every DB column
\* missing and nothing extra.
C8_UnreadableFileAllMissing ==
    (CompareCalled /\ (~HasReadableColumns(call.file_schema)
                       \/ FileColumns(call.file_schema) = {})) =>
        LET r == ret.value
        IN /\ DOMAIN r = RawComparisonKeys
           /\ r.columns_missing_from_file = DBColumns(call.db_schema)
           /\ r.columns_extra_in_file = {}


----------------------------------------------------------------------------
(* Schema history (src/main.py).  Table and file names are sequences of    *)
(* characters.                                                             *)

NUM_HISTORICAL_SCHEMAS_TO_LOAD == 3

UpperCase == <<"A", "B", "C", "D", "E", "F", "G", "H", "I", "J", "K", "L", "M",
               "N", "O", "P", "Q", "R", "S", "T", "U", "V", "W", "X", "Y", "Z">>

LowerCase == <<"a", "b", "c", "d", "e", "f", "g", "h", "i", "j", "k", "l", "m",
               "n", "o", "p", "q", "r", "s", "t", "u", "v", "w", "x", "y", "z">>

\* the characters of file names in ASCII order
AsciiOrder == <<"-", ".">> \o DigitChars \o UpperCase \o <<"_">> \o LowerCase

CharCode(ch) == CHOOSE k \in 1..Len(AsciiOrder) : AsciiOrder[k] = ch

\* c.isalnum()
IsAlnum(ch) == ch \in Range(DigitChars) \cup Range(UpperCase) \cup Range(LowerCase)

\* str.lower()
ToLower(s) ==
    [i \in 1..Len(s) |->
        IF s[i] \in Range(UpperCase)
        THEN LowerCase[CHOOSE k \in 1..26 : UpperCase[k] = s[i]]
        ELSE s[i]]

\* "".join(c if c.isalnum() else "_" for c in table_name)
SafeTableName(table_name) ==
    [i \in 1..Len(table_name) |-> IF IsAlnum(table_name[i]) THEN table_name[i] ELSE "_"]

SchemaInfix == <<"_", "s", "c", "h", "e", "m", "a", "_">>

JsonSuffix == <<".", "j", "s", "o", "n">>

\* strftime('%Y%m%dT%H%M%SZ') of the clock: fixed width, digits first, one
\* per second (the date is the same throughout)
Timestamp(time) ==
    <<"0", "T", DigitChars[(time \div 10) + 1], DigitChars[(time % 10) + 1], "Z">>

\* f"{safe_table_name}_schema_{timestamp}.json"
SnapshotFileName(table_name, time) ==
    SafeTableName(table_name) \o SchemaInfix \o Timestamp(time) \o JsonSuffix

\* save_schema_to_history: the files after the call.  fails: makedirs or
\* open raised, which is logged and swallowed
save_schema_to_history(files, table_name, file_schema, time, fails) ==
    IF fails THEN files
    ELSE LET filename == SnapshotFileName(table_name, time)
             schema_to_save == [columns |-> file_schema.columns]
         IN [f \in DOMAIN files \cup {filename} |->
                IF f = filename THEN schema_to_save ELSE files[f]]

IsPrefix(p, s) == Len(p) <= Len(s) /\ SubSeq(s, 1, Len(p)) = p

IsSuffix(p, s) == Len(p) <= Len(s) /\ SubSeq(s, Len(s) - Len(p) + 1, Len(s)) = p

\* glob of f"{safe_table_name}_schema_*.json"
GlobMatches(table_name, filename) ==
    /\ IsPrefix(SafeTableName(table_name) \o SchemaInfix, filename)
    /\ IsSuffix(JsonSuffix, filename)
    /\ Len(filename) >= Len(table_name) + Len(SchemaInfix) + Len(JsonSuffix)

\* a < b as Python compares strings
RECURSIVE StrLess(_, _)
StrLess(a, b) ==
    IF Len(b) = 0 THEN FALSE
    ELSE IF Len(a) = 0 THEN TRUE
    ELSE IF a[1] = b[1] THEN StrLess(Tail(a), Tail(b))
    ELSE CharCode(a[1]) < CharCode(b[1])

\* sorted(names, reverse=True)
RECURSIVE SortedReverse(_)
SortedReverse(names) ==
    IF names = {} THEN <<>>
    ELSE LET top == CHOOSE n \in names : \A m \in names : ~StrLess(n, m)
         IN <<top>> \o SortedReverse(names \ {top})

\* history_files[:num_history]; a negative num_history leaves off the last
\* -num_history files
Slice(s, n) == IF n >= 0 THEN Take(s, n) ELSE Take(s, IF Len(s) + n > 0 THEN Len(s) + n ELSE 0)

\* the files load_historical_schemas reads, in the order it reads them.
\* unreadable: the files that fail to open or parse, which are logged and
\* skipped
LoadedFiles(files, table_name, num_history, unreadable) ==
    LET history_files == SortedReverse({f \in DOMAIN files : GlobMatches(table_name, f)})
        files_to_load == Slice(history_files, num_history)
        readable(f) == f \notin unreadable
    IN SelectSeq(files_to_load, readable)

\* load_historical_schemas: the snapshots returned
load_historical_schemas(files, table_name, num_history, unreadable) ==
    LET loaded == LoadedFiles(files, table_name, num_history, unreadable)
    IN [k \in 1..Len(loaded) |-> files[loaded[k]]]

----------------------------------------------------------------------------
(* Calls of save_schema_to_history and load_historical_schemas: a run of   *)
(* saves for several tables while the clock advances, ended by one load.   *)

\* table names: one plain, two that differ in a non-alphanumeric character
\* only, one of the form <table>_schema_<x>
PlainTable == <<"a">>
DashTable == <<"a", "-", "b">>
UnderscoreTable == <<"a", "_", "b">>
SchemaTable == <<"a", "_", "s", "c", "h", "e", "m", "a", "_", "b">>

HistoryTables == {PlainTable, DashTable, UnderscoreTable, SchemaTable}

\* the column of the sheets loaded into a table: each table has its own
TableTag(table_name) ==
    IF table_name = PlainTable THEN "a"
    ELSE IF table_name = DashTable THEN "a-b"
    ELSE IF table_name = UnderscoreTable THEN "a_b"
    ELSE "a_schema_b"

\* the FileSchema of a sheet loaded into the table
SchemaFor(table_name) ==
    [file_name |-> "input", sheet_name |-> "Sheet1", total_rows |-> 1, total_columns |-> 1,
     columns |-> [c \in {TableTag(table_name)} |->
                    [inferred_type |-> "int64", sample_values |-> <<I(1)>>, null_count |-> 0]]]

\* the content of a snapshot saved for the table
SnapshotFor(table_name) == [columns |-> SchemaFor(table_name).columns]

InitHistory ==
    /\ call = [fn |-> "none", calls |-> 0]
    /\ ret = NotCalled
    /\ pc = "idle"
    /\ file = None
    /\ user_provided_table_name = NoName
    /\ database = {}
    /\ sheet_index = 0
    /\ sheet = None
    /\ ran = <<>>
    /\ all_sheet_reports = <<>>
    /\ inferred_target_table = NoName
    /\ final_output = None
    /\ schema_history = <<>>
    /\ now = 0

\* one call of save_schema_to_history, some seconds after the one before
CallSaveSchema ==
    /\ ~ret.called
    /\ call.calls < MaxSaves
    /\ \E table_name \in HistoryTables, fails \in BOOLEAN, seconds \in {0, 1} :
         /\ now + seconds <= MaxTime
         /\ now' = now + seconds
         /\ schema_history' =
               save_schema_to_history(schema_history, table_name, SchemaFor(table_name),
                                      now', fails)
         /\ call' = [fn |-> "save_schema_to_history", table_name |-> table_name,
                     fails |-> fails, calls |-> call.calls + 1]
    /\ UNCHANGED <<ret, pc, file, user_provided_table_name, database, sheet_index, sheet,
                   ran, all_sheet_reports, inferred_target_table, final_output>>

\* the files of the directory that may fail to open or parse: none or one
UnreadableFiles == {{}} \cup {{f} : f \in DOMAIN schema_history}

\* one call of load_historical_schemas
CallLoadSchemas ==
    /\ ~ret.called
    /\ \E table_name \in HistoryTables, num_history \in 0..NUM_HISTORICAL_SCHEMAS_TO_LOAD,
          unreadable \in UnreadableFiles :
         /\ call' = [fn |-> "load_historical_schemas", table_name |-> table_name,
                     num_history |-> num_history, unreadable |-> unreadable,
                     calls |-> call.calls + 1]
         /\ ret' = [called |-> TRUE,
                    value |-> load_historical_schemas(schema_history, table_name,
                                                      num_history, unreadable),
                    loaded |-> LoadedFiles(schema_history, table_name, num_history,
                                           unreadable)]
    /\ UNCHANGED runVars

NextHistory == CallSaveSchema \/ CallLoadSchemas

SpecHistory == InitHistory /\ [][NextHistory]_vars

----------------------------------------------------------------------------
(* Properties of the schema history                                        *)

SaveSucceeds == call'.fn = "save_schema_to_history" /\ call'.calls > call.calls /\ ~call'.fails

\* C11: save_schema_to_history never overwrites: every successful save adds
\* one new file, and the content of every file written before is unchanged.
C11_SaveNeverOverwrites ==
    [][SaveSucceeds =>
         /\ Cardinality(DOMAIN schema_history') = Cardinality(DOMAIN schema_history) + 1
         /\ \A f \in DOMAIN schema_history : schema_history'[f] = schema_history[f]]_vars

LoadCalled == ret.called /\ call.fn = "load_historical_schemas"

\* the timestamp embedded in the name of a snapshot file
EmbeddedTimestamp(filename) ==
    SubSeq(filename, Len(filename) - Len(JsonSuffix) - Len(Timestamp(0)) + 1,
           Len(filename) - Len(JsonSuffix))

\* C12: load_historical_schemas(table, n), n >= 0, returns at most n
\* snapshots, and returns them most recent first by the timestamp embedded
\* in the file name.
C12_AtMostNMostRecentFirst ==
    LoadCalled =>
        /\ Len(ret.value) <= call.num_history
        /\ \A i, j \in 1..Len(ret.loaded) :
              i < j => ~StrLess(EmbeddedTimestamp(ret.loaded[i]),
                                EmbeddedTimestamp(ret.loaded[j]))

\* C27: load_historical_schemas(T, n) returns only snapshots that
\* save_schema_to_history saved for table T: no snapshot saved for another
\* table name, be it one that differs from T in non-alphanumeric characters
\* only or one of the form T_schema_x, is returned for T.
C27_OnlyOwnTableSnapshots ==
    LoadCalled =>
        \A k \in 1..Len(ret.value) : ret.value[k] = SnapshotFor(call.table_name)

\* the snapshot files of the table that open and parse, most recent first
ParsableSnapshots ==
    LET parses(f) == f \notin call.unreadable
    IN SelectSeq(SortedReverse({f \in DOMAIN schema_history :
                                   GlobMatches(call.table_name, f)}), parses)

\* C28: load_historical_schemas(table, n) returns the n most recent
\* snapshots that parse: a file among the n newest that fails to parse is
\* skipped and the next older parsable snapshot takes its place, so the
\* result has min(n, number of parsable snapshots of the table) entries.
C28_NMostRecentParsable ==
    LoadCalled =>
        /\ ret.loaded = Take(ParsableSnapshots, call.num_history)
        /\ Len(ret.value) = Min(call.num_history, Len(ParsableSnapshots))

----------------------------------------------------------------------------
(* get_llm_streaming_response (src/main.py)                                *)

\* max_retries of get_llm_streaming_response
MaxRetries == 3

\* The response after the attempts, each "ok", "rate_limit" or "error":
\* the text of the first attempt that does not hit the rate limit, None
\* when that attempt fails or every attempt hits the limit
RECURSIVE LLMAttempts(_, _, _)
LLMAttempts(attempts, text, attempt) ==
    IF attempt > MaxRetries THEN None
    ELSE IF attempts[attempt] = "ok" THEN text
    ELSE IF attempts[attempt] = "rate_limit" THEN LLMAttempts(attempts, text, attempt + 1)
    ELSE None

get_llm_streaming_response(attempts, text) == LLMAttempts(attempts, text, 1)

AttemptOutcomes == [1..MaxRetries -> {"ok", "rate_limit", "error"}]

\* A response text is what json.loads makes of it: not JSON at all, a JSON
\* object (a dict), or another JSON value (a list)
InvalidJson == [json |-> "invalid"]
JsonArray == [json |-> "array"]
JsonObject(value) == [json |-> "object", value |-> value]


----------------------------------------------------------------------------
(* The database, the input files and the answers of the environment        *)

Orders == <<"o", "r", "d", "e", "r", "s">>
Items == <<"i", "t", "e", "m", "s">>
Ghost == <<"g", "h", "o", "s", "t">>

\* inspector.get_columns / get_pk_constraint of a table
TableColumns(table_name) ==
    IF table_name = Orders
    THEN <<Column("OrderID", <<"INTEGER">>, FALSE, TRUE),
           Column("Quantity", <<"INTEGER">>, FALSE, FALSE)>>
    ELSE <<Column("Qty", <<"VARCHAR", "(10)">>, TRUE, FALSE)>>

\* inspector.get_check_constraints of a table
TableConstraints(table_name) ==
    IF table_name = Orders THEN <<QuantityPositive>> ELSE <<>>

\* a fetch that answers a missing table with a schema of no columns
get_db_schema_or_empty(tables, table_name) ==
    IF table_name \notin tables THEN <<>> ELSE TableColumns(table_name)

\* get_db_schema: None when the table does not exist
get_db_schema(tables, table_name) ==
    IF table_name \notin tables THEN NoSchema ELSE TableColumns(table_name)

\* get_all_table_schemas: the tables that have a schema; {} when listing fails
get_all_table_schemas(tables, fails) ==
    IF fails THEN {}
    ELSE {n \in tables : get_db_schema(tables, n) \notin {NoSchema, <<>>}}

AllSheetNames == <<"Sheet1", "Sheet2", "Sheet3", "Sheet4">>

Files ==
    { [is_excel |-> TRUE, readable |-> r, sheet_names |-> Take(AllSheetNames, n)] :
        r \in BOOLEAN, n \in 0..MaxSheets }
    \cup { [is_excel |-> FALSE, readable |-> r, sheet_names |-> <<>>] : r \in BOOLEAN }

\* sheet_names of run_multi_sheet_validation: [None] for a CSV file
SheetNames == IF file.is_excel THEN file.sheet_names ELSE <<NoSheetName>>

\* the frames a sheet can load as
BlankFrame ==
    DataFrame(<<"OrderID", "Quantity">>, RangeIndex(1), << <<Null>>, <<Null>> >>)

\* a sheet that opens with a blank row and names the quantity Qty; a key is
\* missing further down, a key comes twice and two quantities are not
\* positive
QtyFrame ==
    DataFrame(<<"OrderID", "Qty">>, RangeIndex(4),
              << <<Null, I(1), Null, I(1)>>, <<Null, I(-1), I(5), I(0)>> >>)

SheetFrames == {BlankFrame, QtyFrame}

\* what the user can type at the prompt, stripped
Selections == {<<>>, <<"N", "o", "n", "e">>, Orders, Items, Ghost}

\* the prompt takes any name at all, and hands it on
AnySelection(user_selection, table_names) == TRUE

\* the selection is one of the names that were listed
IsListed(user_selection, table_names) == user_selection \in table_names

\* the user typed nothing, or 'none' in any case
IsDeclined(user_selection) ==
    user_selection = <<>> \/ ToLower(user_selection) = <<"n", "o", "n", "e">>

\* the Insight Engine's schema analyses
NoMapping == [n \in {} |-> ""]
QtyMapping == [n \in {"Qty"} |-> "Quantity"]

AnalysisTexts ==
    {InvalidJson, JsonArray,
     JsonObject([naming_mismatches |-> NoMapping]),
     JsonObject([naming_mismatches |-> QtyMapping])}

\* the Insight Engine's final reports
ReportTexts ==
    {InvalidJson, JsonArray,
     JsonObject([validation_summary |-> [status |-> "Passed with Warnings"]])}

\* what get_llm_streaming_response can return when the model answers with
\* one of the texts
LLMAnswers(texts) ==
    {get_llm_streaming_response(attempts, text) :
        attempts \in AttemptOutcomes, text \in texts}

----------------------------------------------------------------------------
(* run_validation_for_sheet and run_multi_sheet_validation (src/main.py)   *)

EmptyDict == [n \in {} |-> 0]

\* the answers of the environment to one sheet, as they are given
NoAnswers ==
    [load |-> "none", frame |-> None, fault |-> FALSE, listing_fails |-> FALSE,
     selection |-> NoName, db_fault |-> FALSE, analysis |-> None,
     constraints_raise |-> FALSE, unreadable |-> {}, report |-> None]

\* the locals of run_validation_for_sheet at its entry
NewSheet(sheet_name) ==
    [sheet_name |-> sheet_name,
     df |-> None,
     file_schema |-> None,
     target_table_name |-> user_provided_table_name,
     inferred_table_name_sheet |-> NoName,
     schema_analysis_json |-> JsonObject(EmptyDict),
     db_schema |-> NoSchema,
     type_violations |-> <<>>,
     dq_violations |-> <<>>,
     historical_schemas |-> <<>>,
     sheet_report |-> JsonObject(EmptyDict),
     steps |-> <<>>,
     answers |-> NoAnswers]

\* the error-shaped sheet report of the except branch (validated_at left out)
ErrorReport(sheet_name, message) ==
    JsonObject([file_name |-> "input", sheet_name |-> sheet_name,
                validation_summary |-> [status |-> "Error", details |-> message],
                error |-> message])

\* dict.update / item assignment: b's items over a's
Updated(a, b) ==
    [k \in DOMAIN a \cup DOMAIN b |-> IF k \in DOMAIN b THEN b[k] ELSE a[k]]

\* a sheet report of the except branch
IsErrorShaped(sheet_report) ==
    /\ sheet_report.json = "object"
    /\ "error" \in DOMAIN sheet_report.value

\* a loop that gives up the remaining sheets once a sheet has failed
NextSheetUnlessFailed(i) ==
    IF i < Len(SheetNames) /\ ~IsNone(sheet) /\ sheet.answers.load = "ok"
                           /\ ~IsErrorShaped(sheet.sheet_report)
    THEN pc' = "load" /\ sheet_index' = i + 1
    ELSE pc' = "aggregate" /\ sheet_index' = i

\* the loop moves on past the sheet at position i, whatever became of it
NextSheet(i) ==
    IF i < Len(SheetNames)
    THEN pc' = "load" /\ sheet_index' = i + 1
    ELSE pc' = "aggregate" /\ sheet_index' = i

\* a handler that saves the snapshot on the way out, as a finally clause would
RaiseThenSave(locals, message) ==
    /\ sheet' = [locals EXCEPT !.sheet_report = ErrorReport(locals.sheet_name, message)]
    /\ pc' = "save"

\* raise inside run_validation_for_sheet: the except branch builds the
\* error report and the function returns
Raise(locals, message) ==
    /\ sheet' = [locals EXCEPT !.sheet_report = ErrorReport(locals.sheet_name, message)]
    /\ pc' = "record"

Start ==
    /\ pc = "start"
    /\ IF file.is_excel /\ ~file.readable
       THEN \* pd.ExcelFile raises: the critical-error branch, nothing returned
            pc' = "done" /\ sheet_index' = 0
       ELSE IF file.is_excel /\ file.sheet_names = <<>>
       THEN pc' = "done" /\ sheet_index' = 0
       ELSE pc' = "load" /\ sheet_index' = 1
    /\ UNCHANGED <<file, user_provided_table_name, database, sheet, ran,
                   all_sheet_reports, inferred_target_table, final_output,
                   schema_history, now>>
    /\ UNCHANGED toolVars

\* pd.read_excel / pd.read_csv of the current sheet
LoadSheet ==
    /\ pc = "load"
    /\ LET name == SheetNames[sheet_index]
       IN \/ \* the read raises: logged by the loop's except branch
             /\ sheet' = [NewSheet(name) EXCEPT !.answers.load = "raise"]
             /\ NextSheet(sheet_index)
          \/ /\ file.readable
             /\ \E df \in SheetFrames :
                  sheet' = [NewSheet(name) EXCEPT !.df = df, !.answers.load = "ok",
                                                  !.answers.frame = df]
             /\ pc' = "extract"
             /\ UNCHANGED sheet_index
    /\ ran' = Append(ran, SheetNames[sheet_index])
    /\ UNCHANGED <<file, user_provided_table_name, database, all_sheet_reports,
                   inferred_target_table, final_output, schema_history, now>>
    /\ UNCHANGED toolVars

\* Step 1: extract the schema
ExtractSchema ==
    /\ pc = "extract"
    /\ \E fault \in BOOLEAN :
         LET r == extract_schema_from_df(sheet.df, "input", sheet.sheet_name, fault)
             locals == [sheet EXCEPT !.df = r.df, !.file_schema = r.file_schema,
                                     !.steps = Append(@, "extract_schema_from_df"),
                                     !.answers.fault = fault]
         IN IF "error" \in DOMAIN r.file_schema \/ DOMAIN r.file_schema.columns = {}
            THEN Raise(locals, "Schema extraction failed")
            ELSE sheet' = locals /\ pc' = "resolve"
    /\ UNCHANGED <<file, user_provided_table_name, database, sheet_index, ran,
                   all_sheet_reports, inferred_target_table, final_output,
                   schema_history, now>>
    /\ UNCHANGED toolVars

\* Step 2: determine the table name
ResolveTable ==
    /\ pc = "resolve"
    /\ IF sheet.target_table_name /= NoName
       THEN sheet' = sheet /\ pc' = "fetch"
       ELSE \E listing_fails \in BOOLEAN :
              LET table_names == get_all_table_schemas(database, listing_fails)
                  listed == [sheet EXCEPT !.steps = Append(@, "get_all_table_schemas"),
                                          !.answers.listing_fails = listing_fails]
              IN IF table_names = {}
                 THEN Raise(listed, "No tables found in database to choose from.")
                 ELSE \E user_selection \in Selections :
                        LET asked == [listed EXCEPT !.answers.selection = user_selection]
                        IN IF IsDeclined(user_selection)
                           THEN Raise(asked, "Process stopped: User confirmed no matching table.")
                           ELSE IF ~IsListed(user_selection, table_names)
                           THEN Raise(asked, "Invalid table: not in the database. Aborting.")
                           ELSE /\ sheet' = [asked EXCEPT
                                                !.target_table_name = user_selection,
                                                !.inferred_table_name_sheet = user_selection]
                                /\ pc' = "fetch"
    /\ UNCHANGED <<file, user_provided_table_name, database, sheet_index, ran,
                   all_sheet_reports, inferred_target_table, final_output,
                   schema_history, now>>
    /\ UNCHANGED toolVars

\* Step 3, first half: fetch the table's schema
FetchDBSchema ==
    /\ pc = "fetch"
    /\ \E db_fault \in BOOLEAN :
         LET db_schema == get_db_schema(database, sheet.target_table_name)
             locals == [sheet EXCEPT !.steps = Append(@, "get_db_schema"),
                                     !.answers.db_fault = db_fault]
         IN IF db_fault
            THEN Raise(locals, "Error fetching DB schema")
            ELSE IF db_schema = NoSchema
            THEN Raise(locals, "Database table does not exist.")
            ELSE sheet' = [locals EXCEPT !.db_schema = db_schema] /\ pc' = "analyze"
    /\ UNCHANGED <<file, user_provided_table_name, database, sheet_index, ran,
                   all_sheet_reports, inferred_target_table, final_output,
                   schema_history, now>>
    /\ UNCHANGED toolVars

\* Step 3, second half: compare the schemas and ask for the schema analysis
AnalyzeSchema ==
    /\ pc = "analyze"
    /\ \E schema_response_str \in LLMAnswers(AnalysisTexts) :
         LET raw_comparison == compare_schemas(sheet.file_schema, sheet.db_schema)
             locals == [sheet EXCEPT !.steps = Append(@, "compare_schemas"),
                                     !.answers.analysis = schema_response_str]
         IN IF IsNone(schema_response_str)
            THEN Raise(locals, "Failed to get schema analysis from LLM.")
            ELSE IF schema_response_str = InvalidJson
            THEN Raise(locals, "LLM did not return valid JSON for schema analysis.")
            ELSE /\ sheet' = [locals EXCEPT !.schema_analysis_json = schema_response_str]
                 /\ pc' = "validate"
    /\ UNCHANGED <<file, user_provided_table_name, database, sheet_index, ran,
                   all_sheet_reports, inferred_target_table, final_output,
                   schema_history, now>>
    /\ UNCHANGED toolVars

\* Step 4: deep validation of the renamed frame
DeepValidation ==
    /\ pc = "validate"
    /\ IF sheet.schema_analysis_json.json /= "object"
       THEN \* schema_analysis_json.get raises AttributeError
            Raise(sheet, "object has no attribute 'get'")
       ELSE \E raises \in BOOLEAN :
              LET analysis == sheet.schema_analysis_json.value
                  naming_mismatches ==
                      IF "naming_mismatches" \in DOMAIN analysis
                      THEN analysis.naming_mismatches ELSE NoMapping
                  mapped_df == Rename(sheet.df, naming_mismatches)
              IN /\ sheet' = [sheet EXCEPT
                        !.type_violations = validate_data_types(mapped_df, sheet.db_schema),
                        !.dq_violations =
                            run_data_quality_checks(mapped_df, sheet.db_schema,
                                TableConstraints(sheet.target_table_name), raises),
                        !.steps = @ \o <<"validate_data_types", "run_data_quality_checks">>,
                        !.answers.constraints_raise = raises]
                 /\ pc' = "rules"
    /\ UNCHANGED <<file, user_provided_table_name, database, sheet_index, ran,
                   all_sheet_reports, inferred_target_table, final_output,
                   schema_history, now>>
    /\ UNCHANGED toolVars

\* Step 4.5: dynamic rules; no answer, or one that is not JSON, is tolerated
InferDynamicRules ==
    /\ pc = "rules"
    /\ \E dynamic_rules_str \in LLMAnswers({InvalidJson, JsonArray}) :
         sheet' = [sheet EXCEPT !.steps = Append(@, "get_dynamic_rules")]
    /\ pc' = "report"
    /\ UNCHANGED <<file, user_provided_table_name, database, sheet_index, ran,
                   all_sheet_reports, inferred_target_table, final_output,
                   schema_history, now>>
    /\ UNCHANGED toolVars

\* the files of the table's history that fail to open or parse, of those
\* the load goes through: none, or one of them
UnreadableAmong(table_name) ==
    {{}} \cup {{f} : f \in Range(LoadedFiles(schema_history, table_name,
                                             NUM_HISTORICAL_SCHEMAS_TO_LOAD, {}))}

\* Step 5: load the history and ask for the final report
FinalReport ==
    /\ pc = "report"
    /\ \E sheet_report_str \in LLMAnswers(ReportTexts),
          unreadable \in UnreadableAmong(sheet.target_table_name) :
         LET historical_schemas ==
                 load_historical_schemas(schema_history, sheet.target_table_name,
                                         NUM_HISTORICAL_SCHEMAS_TO_LOAD, unreadable)
             locals == [sheet EXCEPT !.historical_schemas = historical_schemas,
                                     !.steps = Append(@, "load_historical_schemas"),
                                     !.answers.unreadable = unreadable,
                                     !.answers.report = sheet_report_str]
         IN IF IsNone(sheet_report_str)
            THEN Raise(locals, "Failed to get final report from LLM.")
            ELSE IF sheet_report_str = InvalidJson
            THEN Raise(locals, "LLM did not return valid JSON for final report.")
            ELSE /\ sheet' = [locals EXCEPT !.sheet_report = sheet_report_str]
                 /\ pc' = "save"
    /\ UNCHANGED <<file, user_provided_table_name, database, sheet_index, ran,
                   all_sheet_reports, inferred_target_table, final_output,
                   schema_history, now>>
    /\ UNCHANGED toolVars

\* a save whose failure reaches run_validation_for_sheet's except branch
AfterSaveRaising(locals, fails) ==
    [locals EXCEPT !.steps = Append(@, "save_schema_to_history"),
                   !.sheet_report =
                       IF fails THEN ErrorReport(locals.sheet_name, "Error saving schema")
                       ELSE @]

\* a sheet that reads the history again once its snapshot is written
AfterSaveReloading(locals, fails) ==
    [locals EXCEPT !.steps = Append(@, "save_schema_to_history"),
                   !.historical_schemas =
                       load_historical_schemas(schema_history', locals.target_table_name,
                                               NUM_HISTORICAL_SCHEMAS_TO_LOAD, {})]

\* save_schema_to_history returns normally, having failed or not
AfterSave(locals, fails) ==
    [locals EXCEPT !.steps = Append(@, "save_schema_to_history")]

\* the snapshot of the sheet is saved, at the second the clock shows then
SaveHistory ==
    /\ pc = "save"
    /\ IF sheet.target_table_name /= <<>>
       THEN \E fails \in BOOLEAN, seconds \in {0, 1} :
              /\ now + seconds <= MaxTime
              /\ now' = now + seconds
              /\ schema_history' =
                    save_schema_to_history(schema_history, sheet.target_table_name,
                                           sheet.file_schema, now', fails)
              /\ sheet' = AfterSave(sheet, fails)
       ELSE UNCHANGED <<schema_history, now, sheet>>
    /\ pc' = "record"
    /\ UNCHANGED <<file, user_provided_table_name, database, sheet_index, ran,
                   all_sheet_reports, inferred_target_table, final_output>>
    /\ UNCHANGED toolVars

\* report_key of a sheet
ReportKey(sheet_name) == IF sheet_name = NoSheetName THEN "csv_data" ELSE sheet_name

\* back in the loop: the returned report is stored under the sheet's key,
\* and the locals of run_validation_for_sheet are gone
RecordSheet ==
    /\ pc = "record"
    /\ IF sheet.sheet_report.json = "object"
       THEN /\ all_sheet_reports' =
                  Updated(all_sheet_reports,
                          [k \in {ReportKey(sheet.sheet_name)} |->
                              Updated(sheet.sheet_report.value,
                                      [schema_analysis_report |-> sheet.schema_analysis_json])])
            /\ inferred_target_table' =
                  IF inferred_target_table = NoName /\ sheet.inferred_table_name_sheet /= NoName
                  THEN sheet.inferred_table_name_sheet
                  ELSE inferred_target_table
       ELSE \* item assignment on a list raises TypeError: the loop's except branch
            UNCHANGED <<all_sheet_reports, inferred_target_table>>
    /\ NextSheet(sheet_index)
    /\ sheet' = None
    /\ UNCHANGED <<file, user_provided_table_name, database, ran, final_output,
                   schema_history, now>>
    /\ UNCHANGED toolVars

\* final output assembly
Aggregate ==
    /\ pc = "aggregate"
    /\ LET head == [User_file_name |-> "input",
                    user_provided_target_table |-> user_provided_table_name,
                    inferred_target_table |-> inferred_target_table]
       IN final_output' =
            IF file.is_excel
            THEN Updated(head, [sheet_validation_results |-> all_sheet_reports])
            ELSE Updated(head, IF "csv_data" \in DOMAIN all_sheet_reports
                               THEN all_sheet_reports["csv_data"] ELSE EmptyDict)
    /\ pc' = "done"
    /\ UNCHANGED <<file, user_provided_table_name, database, sheet_index, sheet, ran,
                   all_sheet_reports, inferred_target_table, schema_history, now>>
    /\ UNCHANGED toolVars

Init ==
    /\ call = [fn |-> "run_multi_sheet_validation"]
    /\ ret = NotCalled
    /\ pc = "start"
    /\ file \in Files
    /\ user_provided_table_name \in {NoName, Orders, Ghost}
    /\ database \in {{}, {Orders, Items}}
    /\ sheet_index = 0
    /\ sheet = None
    /\ ran = <<>>
    /\ all_sheet_reports = <<>>
    /\ inferred_target_table = NoName
    /\ final_output = None
    /\ schema_history = <<>>
    /\ now = 0

Next ==
    \/ Start
    \/ LoadSheet
    \/ ExtractSchema
    \/ ResolveTable
    \/ FetchDBSchema
    \/ AnalyzeSchema
    \/ DeepValidation
    \/ InferDynamicRules
    \/ FinalReport
    \/ SaveHistory
    \/ RecordSheet
    \/ Aggregate

Spec == Init /\ [][Next]_vars

----------------------------------------------------------------------------
(* What run_validation_for_sheet returns, as a function of what the sheet  *)
(* is given: its name, the caller's table name, the database and the       *)
(* answers of the environment                                              *)

run_validation_for_sheet(sheet_name, table_name, tables, answers) ==
    LET file_schema ==
            extract_schema_from_df(answers.frame, "input", sheet_name, answers.fault).file_schema
        table_names == get_all_table_schemas(tables, answers.listing_fails)
        target_table_name == IF table_name /= NoName THEN table_name ELSE answers.selection
        Failed(message, schema_analysis_json) ==
            [sheet_report |-> ErrorReport(sheet_name, message),
             schema_analysis_json |-> schema_analysis_json]
        Nothing == JsonObject(EmptyDict)
    IN IF "error" \in DOMAIN file_schema \/ DOMAIN file_schema.columns = {}
       THEN Failed("Schema extraction failed", Nothing)
       ELSE IF table_name = NoName /\ table_names = {}
       THEN Failed("No tables found in database to choose from.", Nothing)
       ELSE IF table_name = NoName /\ IsDeclined(answers.selection)
       THEN Failed("Process stopped: User confirmed no matching table.", Nothing)
       ELSE IF table_name = NoName /\ ~IsListed(answers.selection, table_names)
       THEN Failed("Invalid table: not in the database. Aborting.", Nothing)
       ELSE IF answers.db_fault
       THEN Failed("Error fetching DB schema", Nothing)
       ELSE IF get_db_schema(tables, target_table_name) = NoSchema
       THEN Failed("Database table does not exist.", Nothing)
       ELSE IF IsNone(answers.analysis)
       THEN Failed("Failed to get schema analysis from LLM.", Nothing)
       ELSE IF answers.analysis = InvalidJson
       THEN Failed("LLM did not return valid JSON for schema analysis.", Nothing)
       ELSE IF answers.analysis.json /= "object"
       THEN Failed("object has no attribute 'get'", answers.analysis)
       ELSE IF IsNone(answers.report)
       THEN Failed("Failed to get final report from LLM.", answers.analysis)
       ELSE IF answers.report = InvalidJson
       THEN Failed("LLM did not return valid JSON for final report.", answers.analysis)
       ELSE [sheet_report |-> answers.report, schema_analysis_json |-> answers.analysis]

----------------------------------------------------------------------------
(* Properties of run_multi_sheet_validation                                *)

\* the run has ended with an aggregate report
Reported == pc = "done" /\ ~IsNone(final_output)

\* a full result or an error-shaped result
IsSheetResult(entry) == "validation_summary" \in DOMAIN entry

\* the aggregate report has an entry for the sheet
HasEntry(sheet_name) ==
    IF file.is_excel
    THEN /\ sheet_name \in DOMAIN final_output.sheet_validation_results
         /\ IsSheetResult(final_output.sheet_validation_results[sheet_name])
    ELSE IsSheetResult(final_output)

\* C1: at the end of the run the aggregate report has an entry, a full
\* result or an error-shaped one, for every sheet of the input, whichever
\* step of the sheet failed, the load step included.
C1_EverySheetReported ==
    Reported => \A i \in 1..Len(SheetNames) : HasEntry(SheetNames[i])

\* the entry the loop stores for a returned pair
Entry(returned) ==
    Updated(returned.sheet_report.value,
            [schema_analysis_report |-> returned.schema_analysis_json])

\* what run_validation_for_sheet returns for the inputs of the current sheet
ReturnedAlone ==
    run_validation_for_sheet(sheet.sheet_name, user_provided_table_name, database,
                             sheet.answers)

\* the sheets are taken up in order, all of them, and the pair a sheet's
\* run returns is the one its own inputs give
EverySheetRunAlone ==
    /\ pc = "aggregate" => ran = SheetNames
    /\ pc \in {"load", "extract"} => ran = Take(SheetNames, Len(ran))
    /\ pc = "record" =>
          LET returned == ReturnedAlone
          IN /\ sheet.sheet_report = returned.sheet_report
             /\ sheet.schema_analysis_json = returned.schema_analysis_json

\* a step changes the stored reports only by storing, under the key of the
\* sheet that has just returned, the entry that sheet's own inputs give
StoresOwnResultOnly ==
    IF pc = "record"
    THEN LET returned == ReturnedAlone
         IN all_sheet_reports' =
               IF returned.sheet_report.json = "object"
               THEN Updated(all_sheet_reports,
                            [k \in {ReportKey(sheet.sheet_name)} |-> Entry(returned)])
               ELSE all_sheet_reports
    ELSE all_sheet_reports' = all_sheet_reports

\* C2: no error of one sheet reaches another. Every sheet of the workbook
\* is taken up, whatever became of the sheets before it; what a sheet
\* leaves in the report is what run_validation_for_sheet returns for that
\* sheet's own inputs alone; and no sheet changes the entry of another.
C2_SheetsAreIndependent ==
    /\ []EverySheetRunAlone
    /\ [][StoresOwnResultOnly]_vars

\* the first sheet of a workbook was empty and ended in an error, and the
\* second sheet has a full result
C2_Witness ==
    /\ pc = "aggregate"
    /\ file.is_excel
    /\ Len(SheetNames) = 2
    /\ DOMAIN all_sheet_reports = {"Sheet1", "Sheet2"}
    /\ all_sheet_reports["Sheet1"].validation_summary =
          [status |-> "Error", details |-> "Schema extraction failed"]
    /\ "error" \notin DOMAIN all_sheet_reports["Sheet2"]
    /\ all_sheet_reports["Sheet2"].validation_summary.status = "Passed with Warnings"

----------------------------------------------------------------------------
(* Properties of run_validation_for_sheet                                  *)

\* a sheet is being validated
InSheet == ~IsNone(sheet)

\* the step was taken for the current sheet
Took(step) == step \in Range(sheet.steps)

\* the names listed for the current sheet
Candidates == get_all_table_schemas(database, sheet.answers.listing_fails)

\* the user was asked, and answered
Asked == user_provided_table_name = NoName /\ sheet.answers.selection /= NoName

\* the steps that need a resolved table
TableSteps ==
    {"get_db_schema", "compare_schemas", "validate_data_types",
     "run_data_quality_checks", "save_schema_to_history"}

\* C13: when the caller supplies no table name, the table whose schema is
\* fetched for a sheet is the user's own selection and one of the names
\* listed from the database for that sheet; after an empty answer, 'None',
\* or a name that was not listed, the sheet takes none of the steps that
\* need a table (fetch, compare, validate, snapshot) and returns an
\* error-shaped result.
C13_OnlyListedTableIsFetched ==
    (InSheet /\ user_provided_table_name = NoName) =>
        /\ (pc = "fetch" \/ Took("get_db_schema")) =>
              /\ sheet.target_table_name = sheet.answers.selection
              /\ sheet.target_table_name \in Candidates
        /\ (Asked /\ (IsDeclined(sheet.answers.selection)
                        \/ sheet.answers.selection \notin Candidates)) =>
              /\ pc = "record"
              /\ IsErrorShaped(sheet.sheet_report)
              /\ \A step \in TableSteps : ~Took(step)
        /\ pc \in {"extract", "resolve"} => \A step \in TableSteps : ~Took(step)

\* the user named a table that was not listed, and the sheet has returned
C13_Witness ==
    /\ InSheet
    /\ Asked
    /\ pc = "record"
    /\ Candidates = {Orders, Items}
    /\ sheet.answers.selection = Ghost
    /\ IsErrorShaped(sheet.sheet_report)

\* the place of the step's first occurrence in the current sheet's log
StepIndex(step) == CHOOSE i \in 1..Len(sheet.steps) : sheet.steps[i] = step

\* both steps were taken for the current sheet, a before b
Before(a, b) == Took(a) /\ Took(b) /\ StepIndex(a) < StepIndex(b)

\* every step before the save was taken, in order, against an existing table
ValidatedBeforeSave ==
    /\ Before("extract_schema_from_df", "get_db_schema")
    /\ Before("get_db_schema", "compare_schemas")
    /\ Before("compare_schemas", "validate_data_types")
    /\ Before("validate_data_types", "run_data_quality_checks")
    /\ Before("run_data_quality_checks", "load_historical_schemas")
    /\ sheet.target_table_name \in database
    /\ sheet.db_schema = get_db_schema(database, sheet.target_table_name)
    /\ sheet.db_schema /= NoSchema
    /\ "error" \notin DOMAIN sheet.file_schema
    /\ sheet.answers.report \notin {None, InvalidJson}

\* the save step of a sheet comes last, after all the others succeeded, and
\* a sheet that returns the error report has not taken it
SavedOnlyAfterSuccess ==
    InSheet =>
        /\ pc = "save" => ValidatedBeforeSave
        /\ Took("save_schema_to_history") =>
              /\ ValidatedBeforeSave
              /\ Before("load_historical_schemas", "save_schema_to_history")
              /\ sheet.steps[Len(sheet.steps)] = "save_schema_to_history"
              /\ ~IsErrorShaped(sheet.sheet_report)
        /\ IsErrorShaped(sheet.sheet_report) => ~Took("save_schema_to_history")

\* the snapshot store changes only in the save step of a sheet
WrittenOnlyBySave ==
    schema_history' /= schema_history =>
        /\ InSheet /\ pc = "save" /\ ValidatedBeforeSave
        /\ sheet'.steps = Append(sheet.steps, "save_schema_to_history")

\* C14: a snapshot is written for a sheet only in its save step, which
\* comes after the sheet's schema extraction, table fetch, comparison, type
\* validation and quality checks, all against a table that exists; a sheet
\* whose result is error-shaped has written no snapshot.
C14_SnapshotOnlyAfterValidation ==
    /\ []SavedOnlyAfterSuccess
    /\ [][WrittenOnlyBySave]_vars

\* a sheet has written its snapshot and is about to return its report
C14_Witness ==
    /\ InSheet
    /\ pc = "record"
    /\ Took("save_schema_to_history")
    /\ \E f \in DOMAIN schema_history :
          schema_history[f] = [columns |-> sheet.file_schema.columns]

\* the steps of run_validation_for_sheet
SheetSteps ==
    {"extract", "resolve", "fetch", "analyze", "validate", "rules", "report",
     "save", "record"}

FullHistory ==
    load_historical_schemas(schema_history, sheet.target_table_name,
                            NUM_HISTORICAL_SCHEMAS_TO_LOAD, {})

\* the files the load picked for the current sheet
PickedFiles ==
    Range(LoadedFiles(schema_history, sheet.target_table_name,
                      NUM_HISTORICAL_SCHEMAS_TO_LOAD, {}))

\* a load or a save that failed leaves the sheet where it would be: the
\* history is the readable part of what was picked, and the report is the
\* one the sheet's other inputs give
HistoryFailuresTolerated ==
    InSheet =>
        /\ pc = "save" =>
              /\ Len(sheet.historical_schemas) =
                    Len(FullHistory) - Cardinality(PickedFiles \cap sheet.answers.unreadable)
              /\ PickedFiles \subseteq sheet.answers.unreadable =>
                    sheet.historical_schemas = <<>>
              /\ sheet.sheet_report = sheet.answers.report
        /\ (pc = "record" /\ Took("load_historical_schemas")) =>
              sheet.sheet_report = ReturnedAlone.sheet_report
        /\ Took("save_schema_to_history") =>
              /\ pc = "record"
              /\ sheet.sheet_report = sheet.answers.report
              /\ ~IsErrorShaped(sheet.sheet_report)

\* the save step hands the sheet's report on as it got it
SaveReturnsNormally ==
    (InSheet /\ pc = "save") =>
        /\ pc' = "record"
        /\ sheet'.sheet_report = sheet.sheet_report

\* C16: a failure of save_schema_to_history or of load_historical_schemas
\* never makes the sheet's result an error. Both return normally; a load
\* with unreadable files gives the shorter list of the readable ones (the
\* empty list when none can be read); and the sheet returns the report its
\* other inputs give.
C16_HistoryFailuresNonFatal ==
    /\ []HistoryFailuresTolerated
    /\ [][SaveReturnsNormally]_vars

\* a sheet for which the only snapshot on file could not be read has gone
\* through its save step and returns the report it was given
C16_Witness ==
    /\ InSheet
    /\ pc = "record"
    /\ Took("save_schema_to_history")
    /\ sheet.answers.unreadable /= {}
    /\ sheet.historical_schemas = <<>>
    /\ DOMAIN schema_history = sheet.answers.unreadable
    /\ sheet.sheet_report = sheet.answers.report
    /\ ~IsErrorShaped(sheet.sheet_report)

\* the schema of the current sheet's table was asked for, the database
\* answered, and the table is not there
FetchedMissingTable ==
    /\ InSheet
    /\ Took("get_db_schema")
    /\ ~sheet.answers.db_fault
    /\ sheet.target_table_name \notin database

\* C17: when the table resolved for a sheet does not exist, get_db_schema
\* returns None rather than raising, the sheet returns the error-shaped
\* result saying so, and compare_schemas, validate_data_types,
\* run_data_quality_checks and save_schema_to_history are not called for
\* the sheet.
C17_MissingTableStopsSheet ==
    FetchedMissingTable =>
        /\ get_db_schema(database, sheet.target_table_name) = NoSchema
        /\ sheet.db_schema = NoSchema
        /\ pc = "record"
        /\ sheet.sheet_report =
              ErrorReport(sheet.sheet_name, "Database table does not exist.")
        /\ \A step \in TableSteps \ {"get_db_schema"} : ~Took(step)
        /\ sheet.steps[Len(sheet.steps)] = "get_db_schema"

\* the caller named a table the database does not have, and the sheet has
\* returned
C17_Witness ==
    /\ FetchedMissingTable
    /\ user_provided_table_name = Ghost
    /\ database = {Orders, Items}
    /\ pc = "record"
    /\ IsErrorShaped(sheet.sheet_report)

----------------------------------------------------------------------------
(* Calls of validate_data_types                                            *)

\* columns of n rows: whole numbers; whole numbers with a gap; words; words
\* and numerals and a number, with a gap; two words over and over
Ints(n) == [i \in 1..n |-> I(i)]
Gaps(n) == [i \in 1..n |-> IF i = 2 THEN Null ELSE I(i)]
Words(n) == [i \in 1..n |-> S(<<LowerCase[i]>>)]
Mixed(n) ==
    [i \in 1..n |-> CASE i = 1 -> S(<<"7">>)
                      [] i = 2 -> Null
                      [] i = 3 -> I(3)
                      [] OTHER -> S(<<LowerCase[i]>>)]
Repeats(n) == [i \in 1..n |-> S(<<LowerCase[(i % 2) + 1]>>)]

TypeSeries(n) == {Ints(n), Gaps(n), Words(n), Mixed(n), Repeats(n)}

\* the labels of a frame's two columns: both in the table, one label
\* carried twice, one column the table does not have
TypeLabels == {<<"A", "B">>, <<"A", "A">>, <<"B", "C">>}

TypeFrames(max_values) ==
    {DataFrame(labels, RangeIndex(n), <<a, b>>) :
        labels \in TypeLabels, n \in {2, max_values},
        a \in TypeSeries(2) \cup TypeSeries(max_values),
        b \in TypeSeries(2) \cup TypeSeries(max_values)}

\* declared types: one of each group of the map, with and without
\* parameters, and one the map does not have
DeclaredTypes ==
    {<<"INTEGER">>, <<"REAL">>, <<"VARCHAR", "(10)">>, <<"DATE">>, <<"BOOLEAN">>,
     <<"BLOB">>}

TypeSchemas ==
    {<<Column("A", a, TRUE, FALSE), Column("B", b, TRUE, FALSE)>> :
        a \in DeclaredTypes, b \in DeclaredTypes}
    \cup {<<Column("B", b, TRUE, FALSE), Column("A", a, TRUE, FALSE)>> :
        a \in DeclaredTypes, b \in DeclaredTypes}

\* a frame of equal columns
IsFrame(df) == \A i \in 1..Len(df.data) : Len(df.data[i]) = NRows(df)

TypeCalls(max_values) ==
    {[fn |-> "validate_data_types", df |-> df, db_schema |-> db_schema,
      given |-> [df |-> df, db_schema |-> db_schema]] :
        df \in {f \in TypeFrames(max_values) : IsFrame(f)},
        db_schema \in TypeSchemas}

InitTypes ==
    /\ call \in TypeCalls(MaxValues)
    /\ ret = [called |-> FALSE, values |-> <<>>]
    /\ pc = "idle"
    /\ file = None
    /\ user_provided_table_name = NoName
    /\ database = {}
    /\ sheet_index = 0
    /\ sheet = None
    /\ ran = <<>>
    /\ all_sheet_reports = <<>>
    /\ inferred_target_table = NoName
    /\ final_output = None
    /\ schema_history = <<>>
    /\ now = 0

\* validate_data_types is called, once and then once more, on the frame and
\* the schema as the call before left them: the function reads both and
\* assigns to neither
CallValidateDataTypes ==
    /\ Len(ret.values) < 2
    /\ ret' = [called |-> TRUE,
               values |-> Append(ret.values,
                                 validate_data_types(call.df, call.db_schema))]
    /\ call' = call
    /\ UNCHANGED runVars

NextTypes == CallValidateDataTypes

SpecTypes == InitTypes /\ [][NextTypes]_vars

----------------------------------------------------------------------------
(* Properties of validate_data_types                                       *)

TypesCalled == ret.called /\ call.fn = "validate_data_types"

\* the violations the first call returned
TypeViolations == ret.values[1]

\* the violations returned for the column
ViolationsFor(name) ==
    SelectSeq(TypeViolations, LAMBDA v : v.column = name)

\* the category of a file type
FileCategory(file_dtype) ==
    CASE file_dtype = "int64" -> "integer-like"
      [] file_dtype = "float64" -> "float-like"
      [] file_dtype = "object" -> "text-like"
      [] file_dtype = "datetime64[ns]" -> "temporal"
      [] file_dtype = "bool" -> "boolean"
      [] OTHER -> "other"

\* the declared base types of the compatibility table, by category
CompatibilityTable ==
    [integer |-> {"INTEGER", "INT"},
     float |-> {"REAL", "FLOAT", "NUMERIC"},
     text |-> {"TEXT", "VARCHAR", "CHAR"},
     temporal |-> {"DATE", "DATETIME", "TIMESTAMP"},
     boolean |-> {"BOOLEAN", "BOOL"}]

InTable(base) == \E k \in DOMAIN CompatibilityTable : base \in CompatibilityTable[k]

DBCategory(base) ==
    CASE base \in CompatibilityTable.integer -> "integer-like"
      [] base \in CompatibilityTable.float -> "float-like"
      [] base \in CompatibilityTable.text -> "text-like"
      [] base \in CompatibilityTable.temporal -> "temporal"
      [] base \in CompatibilityTable.boolean -> "boolean"
      [] OTHER -> "unknown"

\* the categories of the file's columns that carry the label
FileCategories(df, name) ==
    {FileCategory(df.dtypes[i]) : i \in ColPositions(df, name)}

\* the column's categories differ, and not as a temporal column held as text
CategoriesDiffer(df, col) ==
    /\ InTable(col.type[1])
    /\ \E c \in FileCategories(df, col.name) :
          /\ c /= DBCategory(col.type[1])
          /\ ~(DBCategory(col.type[1]) = "temporal" /\ c = "text-like")

FlaggedIffCategoriesDifferUnlessRepeated ==
    TypesCalled =>
        \A k \in 1..Len(call.db_schema) :
            LET col == call.db_schema[k]
            IN ~IsDuplicateColumn(call.df, col.name) =>
                 Len(ViolationsFor(col.name)) =
                   IF HasColumn(call.df, col.name) /\ CategoriesDiffer(call.df, col)
                   THEN 1 ELSE 0

\* the first distinct non-null values of the column, up to the limit
FirstDistinct(values) == Take(NonNullUnique(values), SampleLimit)

\* an integer or a float was expected and text was found
NumberExpectedTextFound(violation) ==
    /\ DBCategory(violation.expected_db_type) \in {"integer-like", "float-like"}
    /\ violation.found_file_type = "object"

\* the samples are the first distinct non-null values of the column: as
\* many of them, and for a text column the same text
SamplesAreFirstDistinct(violation) ==
    LET samples == violation.sample_invalid_values
        first == FirstDistinct(Series(call.df, violation.column))
    IN /\ Len(samples) = Len(first)
       /\ violation.found_file_type = "object" =>
             samples = [k \in 1..Len(first) |-> Str(first[k])]

\* no violation carries more samples than the limit
AtMostFiveSamples ==
    TypesCalled =>
        \A i \in 1..Len(TypeViolations) :
            Len(TypeViolations[i].sample_invalid_values) <= SampleLimit

\* C19: a violation that is neither integer-expected-text-found nor
\* float-expected-text-found carries as its samples the first distinct
\* non-null values of the column, up to 5; and no violation carries more
\* than 5 samples.
C19_OtherMismatchesSampleRawValues ==
    /\ AtMostFiveSamples
    /\ TypesCalled =>
          \A i \in 1..Len(TypeViolations) :
              ~NumberExpectedTextFound(TypeViolations[i]) =>
                  SamplesAreFirstDistinct(TypeViolations[i])

\* the same, for the violations of text columns
TextMismatchesSampleRawValues ==
    TypesCalled =>
        \A i \in 1..Len(TypeViolations) :
            (~NumberExpectedTextFound(TypeViolations[i])
               /\ TypeViolations[i].found_file_type = "object") =>
                SamplesAreFirstDistinct(TypeViolations[i])

\* the columns of the table, in the order the schema gives them
SchemaNames(db_schema) == [k \in 1..Len(db_schema) |-> db_schema[k].name]

\* the violations' columns come in the order of the schema's columns
InSchemaOrder(violations, db_schema) ==
    \A i, j \in 1..Len(violations) :
        i < j =>
          \E a, b \in 1..Len(db_schema) :
              /\ a < b
              /\ SchemaNames(db_schema)[a] = violations[i].column
              /\ SchemaNames(db_schema)[b] = violations[j].column

----------------------------------------------------------------------------
(* The deep validation of run_validation_for_sheet (src/main.py, step 4):  *)
(* the frame is renamed by the schema analysis' naming_mismatches and      *)
(* handed to validate_data_types and run_data_quality_checks               *)

\* columns of three rows: a repeated key with a gap; text, a negative
\* number and a gap; whole numbers, not all positive
KeySeries == <<I(1), I(1), Null>>
TextSeries == <<S(<<"a", "b", "c">>), I(-1), Null>>
NumberSeries == <<I(5), I(0), I(-1)>>

DeepSeries == {KeySeries, TextSeries, NumberSeries}

\* a sheet with the columns OrderID, Qty and Quantity
DeepFrames ==
    {DataFrame(<<"OrderID", "Qty", "Quantity">>, RangeIndex(3), <<a, b, c>>) :
        a \in DeepSeries, b \in DeepSeries, c \in DeepSeries}

\* the table: OrderID the key, Quantity declared one way or another
DeepSchemas ==
    {<<Column("OrderID", <<"INTEGER">>, FALSE, TRUE),
       Column("Quantity", type, nullable, primary_key)>> :
        type \in {<<"INTEGER">>, <<"VARCHAR", "(10)">>},
        nullable \in BOOLEAN, primary_key \in BOOLEAN}

DeepCalls ==
    {[fn |-> "deep_validation", df |-> df, naming_mismatches |-> naming_mismatches,
      db_schema |-> db_schema, table_constraints |-> <<QuantityPositive>>,
      raises |-> raises] :
        df \in DeepFrames, naming_mismatches \in {NoMapping, QtyMapping},
        db_schema \in DeepSchemas, raises \in BOOLEAN}

InitDeep ==
    /\ call \in DeepCalls
    /\ ret = NotCalled
    /\ NoRun

\* naming_mismatches is applied and both validators run on the renamed frame
CallDeepValidation ==
    /\ call.fn = "deep_validation"
    /\ ~ret.called
    /\ LET mapped_df == Rename(call.df, call.naming_mismatches)
       IN ret' = [called |-> TRUE,
                  mapped_df |-> mapped_df,
                  type_violations |-> validate_data_types(mapped_df, call.db_schema),
                  dq_violations |->
                      run_data_quality_checks(mapped_df, call.db_schema,
                                              call.table_constraints, call.raises)]
    /\ UNCHANGED call
    /\ UNCHANGED runVars

NextDeep == CallDeepValidation

SpecDeep == InitDeep /\ [][NextDeep]_vars

DeepCalled == ret.called /\ call.fn = "deep_validation"

\* the violations of the list that name the column
Naming(violations, name) == SelectSeq(violations, LAMBDA v : v.column = name)

\* the frame of the one column at the position, under its label
OnlyColumn(df, i) ==
    [columns |-> <<df.columns[i]>>, index |-> df.index,
     data |-> <<df.data[i]>>, dtypes |-> <<df.dtypes[i]>>]

\* several columns of the frame carry the name
Repeated(df, name) == \E i, j \in 1..Len(df.columns) :
                          i /= j /\ df.columns[i] = name /\ df.columns[j] = name

\* the column of the table is checked as it would be were it alone: the
\* violations naming it are those of the frame of that one column
CheckedAsAlone(col) ==
    LET i == CHOOSE k \in ColPositions(ret.mapped_df, col.name) : TRUE
        alone == OnlyColumn(ret.mapped_df, i)
    IN /\ Naming(ret.type_violations, col.name) = validate_data_types(alone, <<col>>)
       /\ Naming(ret.dq_violations, col.name) =
             run_data_quality_checks(alone, <<col>>, call.table_constraints, call.raises)

\* C21: a column name that the renamed frame carries more than once gets
\* no violation from validate_data_types and none from
\* run_data_quality_checks; the table's other columns that the frame has
\* are checked as they would be without the repeated one.
C21_RepeatedColumnSkipped ==
    DeepCalled =>
        \A k \in 1..Len(call.db_schema) :
            LET col == call.db_schema[k]
            IN IF Repeated(ret.mapped_df, col.name)
               THEN /\ Naming(ret.type_violations, col.name) = <<>>
                    /\ Naming(ret.dq_violations, col.name) = <<>>
               ELSE HasColumn(ret.mapped_df, col.name) => CheckedAsAlone(col)

\* Qty was renamed onto Quantity, which the sheet already had; either
\* column alone would be flagged, and the key column has its violation
C21_Witness ==
    /\ DeepCalled
    /\ Repeated(ret.mapped_df, "Quantity")
    /\ \A i \in ColPositions(ret.mapped_df, "Quantity") :
          /\ validate_data_types(OnlyColumn(ret.mapped_df, i), call.db_schema) /= <<>>
          /\ run_data_quality_checks(OnlyColumn(ret.mapped_df, i), call.db_schema,
                                      call.table_constraints, call.raises) /= <<>>
    /\ Naming(ret.dq_violations, "OrderID") /= <<>>
    /\ Naming(ret.dq_violations, "Quantity") = <<>>
    /\ Naming(ret.type_violations, "Quantity") = <<>>

----------------------------------------------------------------------------
(* Properties of the run's inferred_target_table                           *)

\* the current sheet returns with a table the user validly selected for it
ReturnsWithSelection ==
    /\ InSheet
    /\ pc = "record"
    /\ sheet.inferred_table_name_sheet /= NoName

\* the run's inferred table is set by the first sheet that returns with a
\* selection, and by nothing else
FirstSelectionKept ==
    inferred_target_table' =
        IF inferred_target_table = NoName /\ ReturnsWithSelection
        THEN sheet.inferred_table_name_sheet
        ELSE inferred_target_table

\* with a table name from the caller no sheet is asked and none is inferred;
\* the aggregate report carries the run's inferred table
InferredTableReported ==
    /\ user_provided_table_name /= NoName =>
          /\ inferred_target_table = NoName
          /\ InSheet => /\ sheet.answers.selection = NoName
                        /\ sheet.inferred_table_name_sheet = NoName
    /\ Reported => final_output.inferred_target_table = inferred_target_table

\* C22: the inferred_target_table of the run is the table selected for the
\* earliest sheet, in sheet order, that had a valid selection: it is set
\* when that sheet returns and never replaced afterwards. It stays null
\* when the caller supplied the table name, no sheet being asked then, and
\* when no sheet had a valid selection.
C22_FirstInferredTableReported ==
    /\ []InferredTableReported
    /\ [][FirstSelectionKept]_vars

----------------------------------------------------------------------------
(* Calls of extract_schema_from_df                                         *)

ProfiledCells == {Null, I(1), S(<<"a">>)}

\* frames of the columns A and B, of at most max_profiled rows
ExtractCalls(max_profiled) ==
    {[fn |-> "extract_schema_from_df",
      df |-> DataFrame(<<"A", "B">>, RangeIndex(n), <<a, b>>),
      fault |-> fault] :
        n \in 0..max_profiled,
        a \in SeqsUpTo(ProfiledCells, max_profiled),
        b \in SeqsUpTo(ProfiledCells, max_profiled),
        fault \in BOOLEAN}

InitExtract ==
    /\ call \in {c \in ExtractCalls(MaxProfiled) : IsFrame(c.df)}
    /\ ret = NotCalled
    /\ NoRun

CallExtractSchema ==
    /\ call.fn = "extract_schema_from_df"
    /\ ~ret.called
    /\ ret' = [called |-> TRUE,
               value |-> extract_schema_from_df(call.df, "input", "Sheet1",
                                                call.fault).file_schema]
    /\ UNCHANGED call
    /\ UNCHANGED runVars

NextExtract == CallExtractSchema

SpecExtract == InitExtract /\ [][NextExtract]_vars

ExtractCalled == ret.called /\ call.fn = "extract_schema_from_df"

\* the frame has no row that holds a value
NoDataRows(df) ==
    \A r \in 1..NRows(df) : \A c \in 1..Len(df.columns) : IsNull(df.data[c][r])

\* C23: for data that is empty once the fully-empty rows are dropped,
\* extract_schema_from_df returns a FileSchema with total_rows 0, no
\* columns and no error field; a returned FileSchema has the error field
\* only when profiling faulted; either way a FileSchema is returned.
C23_EmptySheetIsNotAnError ==
    ExtractCalled =>
        /\ {"file_name", "sheet_name", "total_rows", "columns"} \subseteq DOMAIN ret.value
        /\ NoDataRows(call.df) =>
              /\ ret.value.total_rows = 0
              /\ DOMAIN ret.value.columns = {}
              /\ "error" \notin DOMAIN ret.value
        /\ "error" \in DOMAIN ret.value => call.fault

\* a sheet of rows that hold no value was profiled
C23_Witness ==
    /\ ExtractCalled
    /\ NRows(call.df) > 1
    /\ NoDataRows(call.df)
    /\ ~call.fault
    /\ ret.value.total_rows = 0
    /\ "error" \notin DOMAIN ret.value

----------------------------------------------------------------------------
(* run_data_quality_checks when the CHECK constraints cannot be fetched    *)

\* the violations of the list of the given kinds
OfKinds(violations, kinds) == SelectSeq(violations, LAMBDA v : v.check \in kinds)

\* what the call would return could the constraints be fetched
WithConstraints ==
    run_data_quality_checks(call.df, call.db_schema, call.table_constraints, FALSE)

\* C24: when fetching the table's CHECK constraints fails,
\* run_data_quality_checks returns as for a table without CHECK
\* constraints: no check_constraint_violation, and exactly the not-null
\* and primary-key violations it returns when the fetch succeeds.
C24_FailedFetchSkipsCheckConstraints ==
    (ret.called /\ call.fn = "run_data_quality_checks" /\ call.raises) =>
        /\ OfKinds(ret.value, {"check_constraint_violation"}) = <<>>
        /\ ret.value = OfKinds(WithConstraints,
                               {"not_null_violation", "primary_key_violation"})
        /\ ret.value = run_data_quality_checks(call.df, call.db_schema, <<>>, FALSE)

\* the fetch failed for a key column that breaks its CHECK constraint and
\* holds a key twice
C24_Witness ==
    /\ ret.called /\ call.fn = "run_data_quality_checks" /\ call.raises
    /\ OfKinds(WithConstraints, {"check_constraint_violation"}) /= <<>>
    /\ OfKinds(ret.value, {"primary_key_violation"}) /= <<>>
    /\ OfKinds(ret.value, {"check_constraint_violation"}) = <<>>

----------------------------------------------------------------------------
(* get_llm_streaming_response attempt by attempt, and what its caller in   *)
(* run_validation_for_sheet does with the result                           *)

\* a loop that tries again after any failure
RetriesAfterAnyError(outcome) == outcome /= "ok"

\* except openai.RateLimitError: sleep, and on to the next attempt
RetriesAfter(outcome) == outcome = "rate_limit"

\* the three calls of run_validation_for_sheet
LLMPurposes == {"schema_analysis", "dynamic_rules", "final_report"}

LLMTexts == AnalysisTexts \cup ReportTexts

InitLLM ==
    /\ call \in {[fn |-> "get_llm_streaming_response", purpose |-> purpose,
                   text |-> text, attempts |-> <<>>] :
                      purpose \in LLMPurposes, text \in LLMTexts}
    /\ ret = [called |-> FALSE, handled |-> FALSE]
    /\ NoRun

\* one pass of the loop: the API is called and answers, fails, or hits the
\* rate limit
LLMAttempt ==
    /\ call.fn = "get_llm_streaming_response"
    /\ ~ret.called
    /\ Len(call.attempts) < MaxRetries
    /\ \E outcome \in {"ok", "rate_limit", "error"} :
         /\ call' = [call EXCEPT !.attempts = Append(@, outcome)]
         /\ ret' = IF RetriesAfter(outcome) THEN ret
                   ELSE [called |-> TRUE, handled |-> FALSE,
                         value |-> IF outcome = "ok" THEN call.text ELSE None]
    /\ UNCHANGED runVars

\* the loop is over: every attempt hit the rate limit
LLMGiveUp ==
    /\ call.fn = "get_llm_streaming_response"
    /\ ~ret.called
    /\ Len(call.attempts) >= MaxRetries
    /\ ret' = [called |-> TRUE, handled |-> FALSE, value |-> None]
    /\ UNCHANGED call
    /\ UNCHANGED runVars

\* run_validation_for_sheet takes the result: without a schema analysis or
\* a final report, or with one that is not JSON, it raises into its except
\* branch; the dynamic rules are done without
SheetAfterLLM(purpose, value) ==
    IF purpose = "dynamic_rules" THEN "continues"
    ELSE IF IsNone(value) \/ value = InvalidJson THEN "error"
    ELSE "continues"

LLMResultHandled ==
    /\ call.fn = "get_llm_streaming_response"
    /\ ret.called
    /\ ~ret.handled
    /\ ret' = [called |-> TRUE, handled |-> TRUE, value |-> ret.value,
               sheet |-> SheetAfterLLM(call.purpose, ret.value)]
    /\ UNCHANGED call
    /\ UNCHANGED runVars

NextLLM == LLMAttempt \/ LLMGiveUp \/ LLMResultHandled

SpecLLM == InitLLM /\ [][NextLLM]_vars

\* the interpreter runs the loop on: a pass that can be made is made
FairSpecLLM == SpecLLM /\ WF_vars(NextLLM)

\* the attempts made so far that hit the rate limit
AllRateLimited(attempts) ==
    \A k \in 1..Len(attempts) : attempts[k] = "rate_limit"

\* at most max_retries attempts, each but the first after a rate-limit
\* error; the result is that of the attempt that ended the loop
LLMResultIsFirstAnswer ==
    LET made == Len(call.attempts)
    IN /\ made <= MaxRetries
       /\ made > 0 => AllRateLimited(SubSeq(call.attempts, 1, made - 1))
       /\ ~ret.called => AllRateLimited(call.attempts)
       /\ ret.called =>
             /\ ret.value =
                   IF made > 0 /\ call.attempts[made] = "ok" THEN call.text ELSE None
             /\ AllRateLimited(call.attempts) => made = MaxRetries
             /\ \A full \in AttemptOutcomes :
                   SubSeq(full, 1, made) = call.attempts =>
                       get_llm_streaming_response(full, call.text) = ret.value
       /\ (ret.called /\ ret.handled /\ IsNone(ret.value)
              /\ call.purpose \in {"schema_analysis", "final_report"}) =>
             ret.sheet = "error"

\* an attempt is made only while nothing was returned
AttemptsOnlyBeforeReturn ==
    call'.attempts /= call.attempts =>
        /\ ~ret.called
        /\ Len(call'.attempts) = Len(call.attempts) + 1

\* C25: get_llm_streaming_response returns after at most max_retries
\* attempts. It tries again only after a rate-limit error, returns the
\* response of the first attempt that succeeds, None at once after any
\* other error, and None when every attempt hit the rate limit; and a None
\* for the schema analysis or the final report makes the sheet's result an
\* error.
C25_LLMCallTerminates ==
    /\ []LLMResultIsFirstAnswer
    /\ [][AttemptsOnlyBeforeReturn]_vars
    /\ <>(ret.called /\ ret.handled)

\* every attempt hit the rate limit, None came back for the final report,
\* and the sheet failed
C25_Witness ==
    /\ call.fn = "get_llm_streaming_response"
    /\ call.purpose = "final_report"
    /\ Len(call.attempts) = MaxRetries
    /\ AllRateLimited(call.attempts)
    /\ ret.called /\ ret.handled
    /\ IsNone(ret.value)
    /\ ret.sheet = "error"

----------------------------------------------------------------------------
(* The history a sheet hands to the Insight Engine                         *)

\* a sheet that saves has loaded before
LoadBeforeSave ==
    InSheet =>
        /\ pc = "save" => Took("load_historical_schemas")
        /\ Took("save_schema_to_history") =>
              Before("load_historical_schemas", "save_schema_to_history")

\* the history of a sheet is what the store held when the final report was
\* asked for, and the sheet's save leaves it as it was loaded
HistoryIsFromBeforeSave ==
    /\ (InSheet /\ pc = "report") =>
          /\ schema_history' = schema_history
          /\ sheet'.historical_schemas =
                load_historical_schemas(schema_history, sheet.target_table_name,
                                        NUM_HISTORICAL_SCHEMAS_TO_LOAD,
                                        sheet'.answers.unreadable)
    /\ (InSheet /\ pc = "save") =>
          sheet'.historical_schemas = sheet.historical_schemas

\* C26: a sheet loads the historical snapshots before it saves its own, so
\* the history handed to the Insight Engine for the sheet is read from the
\* store as it was before the sheet's save and never holds the snapshot the
\* sheet itself writes; it can hold snapshots that earlier sheets of the
\* run wrote for the same table.
C26_HistoryExcludesOwnSnapshot ==
    /\ []LoadBeforeSave
    /\ [][HistoryIsFromBeforeSave]_vars

\* the second sheet was handed the snapshot the first sheet wrote, and has
\* written its own
C26_Witness ==
    /\ InSheet
    /\ pc = "record"
    /\ sheet_index = 2
    /\ Took("save_schema_to_history")
    /\ Len(sheet.historical_schemas) = 1
    /\ Cardinality(DOMAIN schema_history) = 2

----------------------------------------------------------------------------
(* Blank rows of a sheet and the data-quality checks                       *)

\* the frame as the sheet was loaded, under the names the checks use
LoadedAsMapped ==
    LET analysis == sheet.schema_analysis_json.value
    IN Rename(sheet.answers.frame,
              IF "naming_mismatches" \in DOMAIN analysis
              THEN analysis.naming_mismatches ELSE NoMapping)

\* row i of the frame holds no value at all
FullyEmpty(df, i) == \A c \in 1..Len(df.columns) : IsNull(df.data[c][i])

BlankRowLabels(df) == {df.index[i] : i \in {i \in 1..NRows(df) : FullyEmpty(df, i)}}

\* the rows of the loaded sheet, by their position there, that hold some
\* value and are what the violation is about
Offenders(df, v) ==
    LET values == Series(df, v.column)
        rows == {i \in 1..NRows(df) : ~FullyEmpty(df, i)}
        offends(i) ==
            CASE v.check = "not_null_violation" ->
                     IsNull(values[i]) \/ IsEmptyStringMask(values)[i]
              [] v.check = "primary_key_violation" ->
                     /\ ~IsNull(values[i])
                     /\ \E j \in rows \ {i} : values[j] = values[i]
              [] v.check = "check_constraint_violation" ->
                     /\ ToNumeric(values[i]).num
                     /\ ~Satisfies(v.sqltext[2].v, ToNumeric(values[i]).n, v.sqltext[3].n)
    IN {df.index[i] : i \in {i \in rows : offends(i)}}

RowChecks == {"not_null_violation", "primary_key_violation", "check_constraint_violation"}

\* the number of rows a violation counts, and the row positions it reports
\* (a primary_key_violation reports values, not positions)
RowsCounted(v) ==
    IF v.check = "primary_key_violation" THEN v.total_duplicate_records ELSE v.count

RowsReported(v) ==
    IF v.check = "primary_key_violation" THEN {}
    ELSE Range(v.affected_rows_sample_indices)

ChecksRan == InSheet /\ Took("run_data_quality_checks")

\* C30: schema extraction removes the fully-empty rows from the caller's
\* dataset in place and the orchestrator hands that same dataset, renamed,
\* to the validators, so a fully-empty row is never counted in a
\* not_null_violation, primary_key_violation or check_constraint_violation,
\* and the positions reported for the other rows are their positions in
\* the sheet as it was loaded.
C30_BlankRowsNeverCounted ==
    ChecksRan =>
        /\ sheet.df.columns = sheet.answers.frame.columns
        /\ Range(sheet.df.index) =
              Range(sheet.answers.frame.index) \ BlankRowLabels(sheet.answers.frame)
        /\ \A k \in 1..Len(sheet.dq_violations) :
              LET v == sheet.dq_violations[k]
                  offenders == Offenders(LoadedAsMapped, v)
              IN v.check \in RowChecks =>
                   /\ RowsReported(v) \subseteq offenders
                   /\ RowsCounted(v) <= Cardinality(offenders)

\* the sheet opened with a blank row, and the three checks report the rows
\* below it at the positions they were loaded at
C30_Witness ==
    /\ ChecksRan
    /\ BlankRowLabels(sheet.answers.frame) = {0}
    /\ \E i, j, k \in 1..Len(sheet.dq_violations) :
          /\ sheet.dq_violations[i].check = "not_null_violation"
          /\ sheet.dq_violations[i].affected_rows_sample_indices = <<2>>
          /\ sheet.dq_violations[j].check = "primary_key_violation"
          /\ sheet.dq_violations[j].total_duplicate_records = 2
          /\ sheet.dq_violations[k].check = "check_constraint_violation"
          /\ sheet.dq_violations[k].affected_rows_sample_indices = <<1, 3>>

=============================================================================
